---- MODULE Spec2Model ----
(***************************************************************************)
(* A model of the apt-caching-mirror proxy: request routing (main.py),     *)
(* the managed cache path (services/proxy.py), fetch-and-cache with mirror *)
(* failover and temp-file commit (services/cache_manager.py), the mirror   *)
(* registry with dynamic learning (services/mirrors.py), age eviction and  *)
(* admin removal of cache files.                                           *)
(*                                                                         *)
(* Python strings are sequences of one-character strings, so that split,   *)
(* basename, with_suffix, lower and the blacklist matching are computed    *)
(* the way the code computes them.  An MD5 digest is one token (32 hex     *)
(* digits, none of which is "_", "." or "/").  Time is counted in days.    *)
(* Logging (logger, add_log) is output only and is not modelled.           *)
(***************************************************************************)
EXTENDS Integers, Sequences, FiniteSets, TLC

----------------------------------------------------------------------------
(* Bounds of the model *)

\* Number of 64 KiB chunks of an upstream body (iter_content yields them one by one).
BodyLen == 2
\* The clock stops advancing at MaxTime days.
MaxTime == 1
\* Requests accepted in one behaviour.
MaxRequests == 2
\* Admin operations (mirror update/delete, cache file delete, cleanup runs) in one behaviour.
MaxAdminOps == 1
\* cache_days of the configuration, in days.
CacheDays == 1
\* Inodes of the file system (files on disk plus unlinked files still open).
NumInodes == 3
\* Admin requests served in one behaviour of the admin interface.
MaxApiRequests == 2
\* Bytes each peer of a tunnel sends, and the most one recv returns.
MaxStream == 2
RecvMax == 2
\* The most a counter of STATS is raised while flushes are explored, and the
\* number of flushes.
MaxCount == 2
MaxFlushes == 2

----------------------------------------------------------------------------
(* Python string operations *)

Lower(c) ==
    CASE c = "A" -> "a" [] c = "B" -> "b" [] c = "D" -> "d" [] c = "E" -> "e"
      [] c = "I" -> "i" [] c = "O" -> "o" [] c = "S" -> "s" [] c = "T" -> "t"
      [] c = "X" -> "x" [] OTHER -> c

StrLower(s) == [i \in 1..Len(s) |-> Lower(s[i])]

StartsWith(s, p) == Len(s) >= Len(p) /\ SubSeq(s, 1, Len(p)) = p

\* p in s
Contains(s, p) == \E i \in 0..(Len(s) - Len(p)) : SubSeq(s, i + 1, i + Len(p)) = p

\* s.find(c) + 1: the first position of c, 0 when c does not occur
Find(s, c) ==
    IF \E i \in 1..Len(s) : s[i] = c
    THEN CHOOSE i \in 1..Len(s) : s[i] = c /\ \A j \in 1..(i - 1) : s[j] # c
    ELSE 0

\* s.rfind(c) + 1
RFind(s, c) ==
    IF \E i \in 1..Len(s) : s[i] = c
    THEN CHOOSE i \in 1..Len(s) : s[i] = c /\ \A j \in (i + 1)..Len(s) : s[j] # c
    ELSE 0

\* s.split(c, 1)
SplitOnce(s, c) ==
    LET i == Find(s, c)
    IN  IF i = 0 THEN <<s>> ELSE <<SubSeq(s, 1, i - 1), SubSeq(s, i + 1, Len(s))>>

RECURSIVE LStrip(_, _)
LStrip(s, c) == IF s # <<>> /\ Head(s) = c THEN LStrip(Tail(s), c) ELSE s

RECURSIVE RStrip(_, _)
RStrip(s, c) ==
    IF s # <<>> /\ s[Len(s)] = c THEN RStrip(SubSeq(s, 1, Len(s) - 1), c) ELSE s

\* s.strip(c)
Strip(s, c) == RStrip(LStrip(s, c), c)

\* '/'.join(s.split('/')[n:])
RECURSIVE DropSegments(_, _)
DropSegments(s, n) ==
    IF n = 0 THEN s
    ELSE LET i == Find(s, "/")
         IN  IF i = 0 THEN <<>> ELSE DropSegments(SubSeq(s, i + 1, Len(s)), n - 1)

\* os.path.basename
Basename(path) == SubSeq(path, RFind(path, "/") + 1, Len(path))

\* PurePath.suffix of a file name
Suffix(name) ==
    LET i == RFind(name, ".")
    IN  IF 1 < i /\ i < Len(name) THEN SubSeq(name, i, Len(name)) ELSE <<>>

\* PurePath.with_suffix applied to a file name
WithSuffix(name, suffix) ==
    SubSeq(name, 1, Len(name) - Len(Suffix(name))) \o suffix

----------------------------------------------------------------------------
(* Strings of the model *)

S_http == <<"h", "t", "t", "p", ":", "/", "/">>
S_https == <<"h", "t", "t", "p", "s", ":", "/", "/">>
S_security == <<"s", "e", "c", "u", "r", "i", "t", "y">>
S_dash_security == <<"-">> \o S_security
S_index == <<"i", "n", "d", "e", "x">>
S_tmp == <<".", "t", "m", "p">>
S_root == <<"/", "s", "r", "v", "/", "s", "t">>
S_nodir == <<"/", "p", "r", "o", "c", "/", "x">>
S_ubuntu == <<"u", "b", "u", "n", "t", "u">>
S_ubuntu_security == S_ubuntu \o S_dash_security
S_localhost == <<"l", "o", "c", "a", "l", "h", "o", "s", "t">>
S_new_example == <<"n", "e", "w", ".", "e", "x", "a", "m", "p", "l", "e">>
S_proxy_addr == S_localhost \o <<":", "8", "0", "8", "0">>

P_deb == <<"p", "o", "o", "l", "/", "x", ".", "d", "e", "b">>
P_iso == <<"p", "o", "o", "l", "/", "x", ".", "i", "s", "o">>
P_tmp == <<"p", "o", "o", "l", "/", "x", ".", "t", "m", "p">>
P_sec == S_security \o <<"/", "x", ".", "d", "e", "b">>
P_file == <<"f", "i", "l", "e">>
P_repo_file == <<"r", "e", "p", "o", "/">> \o P_file
P_dir == <<"p", "o", "o", "l", "/">>

----------------------------------------------------------------------------
(* Pure functions of the program *)

\* hashlib.md5(path.encode()).hexdigest() of the package paths of the model
Md5Hex(path) ==
    CASE path = P_deb  -> "9bb592ca3754479107632ca45b632438"
      [] path = P_iso  -> "6bd4b45d3c06c91084fb2f14b6061065"
      [] path = P_tmp  -> "6f18e649d799c0b7ffa43382c8b3574a"
      [] path = P_sec  -> "56c26ad6b7616a05bf9719fce103a553"
      [] path = P_file -> "8c7dd922ad47494fc02c388e12c00eac"
      [] path = P_dir  -> "cb9e5f3fc2694b8444c3259f896ee527"

\* path_hash[:2]
HashPrefix(hex) ==
    CASE hex = "9bb592ca3754479107632ca45b632438" -> "9b"
      [] hex = "6bd4b45d3c06c91084fb2f14b6061065" -> "6b"
      [] hex = "6f18e649d799c0b7ffa43382c8b3574a" -> "6f"
      [] hex = "56c26ad6b7616a05bf9719fce103a553" -> "56"
      [] hex = "8c7dd922ad47494fc02c388e12c00eac" -> "8c"
      [] hex = "cb9e5f3fc2694b8444c3259f896ee527" -> "cb"

\* the layout without the digest directory
FlatCachePath(distro, path) ==
    [distro |-> distro, sub |-> "00",
     name |-> <<Md5Hex(path), "_">> \o (IF Basename(path) # <<>> THEN Basename(path) ELSE S_index)]

\* STORAGE/<distro>/<h[0:2]>/<h>_<filename>; a file is named by its directory
\* (distro, sub) and its file name (the digest token followed by characters)
get_cache_path(distro, path) ==
    LET path_hash == Md5Hex(path)
        filename  == IF Basename(path) # <<>> THEN Basename(path) ELSE S_index
    IN  [distro |-> distro, sub |-> HashPrefix(path_hash),
         name |-> <<path_hash, "_">> \o filename]

\* temp_path = cache_path.with_suffix('.tmp')
temp_path_of(cache_path) == [cache_path EXCEPT !.name = WithSuffix(@, S_tmp)]

\* filename.split('_', 1): the name recorded after the digest
real_filename_of(cache_path) ==
    LET parts == SplitOnce(cache_path.name, "_")
    IN  IF Len(parts) > 1 THEN parts[2] ELSE cache_path.name

\* re.search(pattern.replace('.', '\.').replace('*', '.*'), s, re.IGNORECASE),
\* matching at the head of s: "*" is ".*", every other character stands for itself
RECURSIVE GlobMatchHere(_, _)
GlobMatchHere(pattern, s) ==
    IF pattern = <<>> THEN TRUE
    ELSE IF Head(pattern) = "*"
         THEN \E k \in 0..Len(s) : GlobMatchHere(Tail(pattern), SubSeq(s, k + 1, Len(s)))
         ELSE /\ s # <<>>
              /\ Lower(Head(s)) = Lower(Head(pattern))
              /\ GlobMatchHere(Tail(pattern), Tail(s))

GlobSearch(pattern, s) ==
    \E i \in 0..Len(s) : GlobMatchHere(pattern, SubSeq(s, i + 1, Len(s)))

PatternMatches(pattern, filename) ==
    IF \E i \in 1..Len(pattern) : pattern[i] = "*"
    THEN GlobSearch(pattern, filename)
    ELSE Contains(StrLower(filename), StrLower(pattern))

NothingBlacklisted(patterns, filename) == FALSE
is_blacklisted(patterns, filename) ==
    \E i \in 1..Len(patterns) : PatternMatches(patterns[i], filename)

\* socket.gethostbyname and the addresses bound locally: the proxy's host name
\* "localhost" is matched literally before any lookup; new.example is remote
LocalIps == {"10.0.0.5"}
DnsLookup(hostname) ==
    CASE hostname = S_new_example -> "203.0.113.7"
      [] hostname = << >> -> "0.0.0.0"
      [] OTHER -> "unresolved"

is_self(host) ==
    LET hostname == SplitOnce(host, ":")[1]
    IN  \/ hostname \in {S_localhost,
                         <<"1", "2", "7", ".", "0", ".", "0", ".", "1">>,
                         <<":", ":", "1">>,
                         <<"0", ".", "0", ".", "0", ".", "0">>}
        \/ DnsLookup(hostname) \in LocalIps

RegisteredNames(cache) == DOMAIN cache
\* get_all_mirrors applied to a registry value: the approved names
ApprovedNames(cache) == {n \in DOMAIN cache : cache[n].status = "approved"}

SecurityKeyUnchecked(approved, distro, package_path) ==
    IF Contains(StrLower(package_path), S_security) THEN distro \o S_dash_security ELSE distro
\* get_upstream_key, given the approved names it reads
upstream_key_of(approved, distro, package_path) ==
    IF /\ Contains(StrLower(package_path), S_security)
       /\ (distro \o S_dash_security) \in approved
    THEN distro \o S_dash_security
    ELSE distro

\* handle_all, lines 67-78: the path split into distro and package path
clean_path_of(path) ==
    IF StartsWith(path, S_http) \/ StartsWith(path, S_https)
    THEN <<"/">> \o DropSegments(path, 3)
    ELSE path

route_parts(path) == SplitOnce(Strip(clean_path_of(path), "/"), "/")

----------------------------------------------------------------------------
(* Requests, upstream answers, responses *)

\* A request as Flask presents it: the URL path without its leading "/", the
\* authority (the target's for an absolute-form request line, the Host header's
\* otherwise) and the form of the request line
RequestList ==
    << [form |-> "origin",   host |-> S_proxy_addr,  path |-> S_ubuntu \o <<"/">> \o P_deb],
       [form |-> "origin",   host |-> S_proxy_addr,  path |-> S_ubuntu \o <<"/">> \o P_sec],
       [form |-> "origin",   host |-> S_proxy_addr,  path |-> S_ubuntu \o <<"/">> \o P_iso],
       [form |-> "origin",   host |-> S_proxy_addr,  path |-> S_ubuntu \o <<"/">> \o P_tmp],
       [form |-> "absolute", host |-> S_new_example, path |-> P_repo_file],
       [form |-> "absolute", host |-> S_proxy_addr,  path |-> P_repo_file],
       [form |-> "origin",   host |-> S_proxy_addr,  path |-> P_file] >>

AllRequests == 1..Len(RequestList)

\* request.url: werkzeug rebuilds it from the scheme, the authority and the path,
\* whatever the form of the request line was
request_url(rq) == [scheme |-> "http", netloc |-> rq.host, path |-> <<"/">> \o rq.path]

\* request.url.startswith('http')
url_startswith_http(url) == url.scheme \in {"http", "https"}

\* What one upstream GET gives: a status line, a timeout or another transport error
UpstreamResults ==
    {[kind |-> "status", code |-> c] : c \in {200, 204, 206, 304, 404, 500}}
        \cup {[kind |-> "timeout", code |-> 0], [kind |-> "error", code |-> 0]}

NoError == [text |-> "None", code |-> 0]

\* last_error as stream_and_cache records it for a response it does not return
error_string(res) ==
    CASE res.kind = "timeout" -> [text |-> "Timeout", code |-> 0]
      [] res.kind = "error"   -> [text |-> "ConnectionError", code |-> 0]
      [] res.code = 404       -> [text |-> "404 Not Found", code |-> 0]
      [] OTHER                -> [text |-> "HTTP", code |-> res.code]

OnlyOk(res) == res.kind = "status" /\ res.code = 200
\* the statuses stream_and_cache returns to the client
is_success(res) == res.kind = "status" /\ res.code \in {200, 206, 304}

\* A base URL of a mirror, and f"{mirror}/{package_path}"
Url(host, path) == [scheme |-> "http", netloc |-> host, path |-> path]
upstream_url(mirror, package_path) == [mirror EXCEPT !.path = @ \o <<"/">> \o package_path]

\* DEFAULT_MIRRORS, two entries of it with their hosts abbreviated
DefaultMirrors ==
    (S_ubuntu :> << Url(<<"a">>, <<"/">> \o S_ubuntu), Url(<<"b">>, <<"/">> \o S_ubuntu) >>)
        @@ (S_ubuntu_security :> << Url(<<"s">>, <<"/">> \o S_ubuntu) >>)

MirrorStatuses == {"approved", "pending", "blacklisted"}

\* The blacklist the admin has stored: a glob and a substring pattern
StoredBlacklist == << <<"*", ".", "i", "s", "o">>, <<"B", "E", "T", "A">> >>

\* The rows of package_blacklist that load_blacklist_from_db read it from
StoredTable == {StoredBlacklist[j] : j \in 1..Len(StoredBlacklist)}

----------------------------------------------------------------------------
(* State *)

Slots == {1, 2}

VARIABLES
    CONFIG,             \* utils/config.py CONFIG: the options the proxy reads
    MIRRORS_CACHE,      \* services/mirrors.py MIRRORS_CACHE: name -> [urls, status]
    db_mirrors,         \* the mirrors table of the persistent store
    BLACKLIST_PATTERNS, \* services/cache_manager.py BLACKLIST_PATTERNS
    STATS,              \* services/stats.py STATS counters
    files,              \* directory entries under the storage root: path -> inode number
    inodes,             \* inode number -> [used, data, atime, mtime]
    now,                \* the clock, in days
    cleaner,            \* a run of clean_old_cache: [running, cutoff, todo]
    pc,                 \* per request thread: where it is
    req,                \* per request thread: the request (index in RequestList), 0 if none
    loc,                \* per request thread: the locals of the handlers
    fd,                 \* per request thread: the open temp file [ino, off]; ino 0 if none
    resp,               \* per request thread: the response so far (at: while a
                        \* caching fetch runs, the time its upstream answered)
    contacted,          \* per request thread: upstream contacts made, in order
    acct,               \* per request thread: what it added to STATS
    fsops,              \* per request thread: paths it created or wrote
    accepted,           \* requests accepted so far
    admin_ops,          \* admin operations so far
    api,                \* per admin request thread: the request and where its handler is
    outside,            \* the files next to the storage root (outside of it)
    disk_config,        \* config.json as it is on disk
    probed,             \* the URLs validate_mirror has accepted for the admin interface
    tunnel,             \* a CONNECT tunnel: its sockets and the relay loop
    flush,              \* save_stats_to_db: where it is, the locks, the stats table
    locking,            \* the threading.Lock objects: who holds each, where each thread is
    db_blacklist        \* the package_blacklist table: its patterns (the primary key)

vars == << CONFIG, MIRRORS_CACHE, db_mirrors, BLACKLIST_PATTERNS, STATS, files, inodes,
           now, cleaner, pc, req, loc, fd, resp, contacted, acct, fsops, accepted,
           admin_ops, api, outside, disk_config, probed, tunnel, flush, locking,
           db_blacklist >>

\* what the proxy's request handlers, the cleaner and the clock leave alone
side == << api, outside, disk_config, probed, tunnel, flush, locking, db_blacklist >>

globals == << CONFIG, MIRRORS_CACHE, db_mirrors, BLACKLIST_PATTERNS, STATS, files, inodes,
              now, cleaner, admin_ops, side >>

\* what the request threads of the proxy hold
threads == << pc, req, loc, fd, resp, contacted, acct, fsops, accepted >>

ApiWorkers == 1..MaxApiRequests

\* An admin request: the operation, the Authorization header and the parameters
\* (name also holds a blacklist pattern; a field an operation does not take is
\* left at its value here)
NoApiRequest ==
    [op |-> "none", header |-> << >>, name |-> << >>, has_urls |-> FALSE, urls |-> << >>,
     status |-> "none", path |-> << >>, key |-> "none", days |-> 0, enabled |-> FALSE]

NoRead ==
    [cache_days |-> 0, cache_retention_enabled |-> FALSE, passthrough_mode |-> FALSE,
     admin_token |-> << >>]

\* A thread of the admin interface: its request, the status code it answered, the
\* locals of the mirror functions (new_urls, new_status), the config file as
\* save_config_value read it, the file a download sent
IdleApi ==
    [pc |-> "idle", rq |-> NoApiRequest, code |-> 0, new_urls |-> << >>,
     new_status |-> "none", read |-> NoRead, sent |-> "none"]
Sockets == {"client", "upstream"}
NoTunnel ==
    [pc |-> "none", r |-> << >>, s |-> "none", data |-> << >>, eof |-> FALSE,
     up |-> "none", cl |-> "none", line |-> FALSE, code |-> 0,
     fin |-> [t \in Sockets |-> FALSE],
     sent |-> [t \in Sockets |-> 0],
     inbuf |-> [t \in Sockets |-> << >>],
     read |-> [t \in Sockets |-> << >>],
     out |-> [t \in Sockets |-> << >>]]


NoFd == [ino |-> 0, off |-> 0]
FreeInode == [used |-> FALSE, data |-> <<>>, atime |-> 0, mtime |-> 0]
NoLocals ==
    [route |-> "none", snap |-> {}, key |-> <<>>, urls |-> <<>>, i |-> 0,
     last_error |-> NoError, should_cache |-> FALSE, saved |-> "no"]
NoResponse ==
    [status |-> 0, body |-> 0, source |-> "none", error |-> "none", commit |-> "none",
     detail |-> NoError, at |-> 0]
NoAccount == [requests_total |-> 0, cache_hits |-> 0, cache_misses |-> 0, bytes_served |-> 0]

\* No flush in progress: stats_lock and db_lock are free (a lock is held by
\* "flush" or by nobody; a request thread takes and releases stats_lock within
\* one step), no statement is executing, the stats table holds zeros
NoFlush ==
    [pc |-> "idle", i |-> 0, stats_lock |-> "none", db_lock |-> "none", io |-> FALSE,
     runs |-> 0, pending |-> NoAccount, db_stats |-> NoAccount]

\* the locks of the program: db_lock, stats_lock, mirrors_lock, blacklist_lock,
\* config_lock, log_lock, file_stats_lock
Locks == {"db_lock", "stats_lock", "mirrors_lock", "blacklist_lock", "config_lock",
          "log_lock", "file_stats_lock"}

\* the threads that take them: the module-level start-up code, a request
\* handler, an admin request handler, background_tasks
Roles == {"main", "request", "admin", "background"}

\* no lock held, no thread inside a function
NoLocking ==
    [owner |-> [l \in Locks |-> "none"], th |-> [t \in Roles |-> [op |-> "none", i |-> 0]]]


\* What the handlers compute from the request alone, per request of the model
PartsOf == [q \in AllRequests |-> route_parts(RequestList[q].path)]
TwoParts == {q \in AllRequests : Len(PartsOf[q]) >= 2}
CachePathOf == [q \in TwoParts |-> get_cache_path(PartsOf[q][1], PartsOf[q][2])]
TempPathOf == [q \in TwoParts |-> temp_path_of(CachePathOf[q])]

TheRequest(r) == RequestList[req[r]]
Distro(r) == PartsOf[req[r]][1]
PackagePath(r) == PartsOf[req[r]][2]
CachePath(r) == CachePathOf[req[r]]
TempPath(r) == TempPathOf[req[r]]

----------------------------------------------------------------------------
(* The file system under the storage root *)

Max(a, b) == IF a >= b THEN a ELSE b

Exists(path) == path \in DOMAIN files

\* An inode stays allocated while a directory entry or an open file refers to it
Collect(fl, ind, fds) ==
    [k \in 1..NumInodes |->
        IF (\E p \in DOMAIN fl : fl[p] = k) \/ (\E t \in Slots : fds[t].ino = k)
        THEN ind[k] ELSE FreeInode]

FreeInodes == {k \in 1..NumInodes : ~inodes[k].used}

\* path.unlink() / os.remove(path)
Unlinked(fl, path) == [p \in DOMAIN fl \ {path} |-> fl[p]]

\* src.rename(dst) of an existing src: dst names src's inode, src is gone
Renamed(fl, src, dst) == [p \in (DOMAIN fl \ {src}) \cup {dst} |-> IF p = dst THEN fl[src] ELSE fl[p]]

\* f.write(chunk) at the file position: a write past the end leaves a hole of zeros
Written(data, off, cell) ==
    IF off < Len(data)
    THEN [data EXCEPT ![off + 1] = cell]
    ELSE data \o [j \in 1..(off - Len(data)) |-> 0] \o <<cell>>

\* A file holds a complete upstream body
Complete(data) == Len(data) = BodyLen /\ \A j \in 1..Len(data) : data[j] # 0

\* is_cache_valid: the file exists and, with retention enabled, now - st_atime is
\* below cache_days
is_cache_valid(path) ==
    /\ Exists(path)
    /\ \/ ~CONFIG.cache_retention_enabled
       \/ now - inodes[files[path]].atime < CONFIG.cache_days

----------------------------------------------------------------------------
(* Initial state: configuration loaded, store seeded with the default mirrors,
   empty cache, no request in progress *)

Init ==
    /\ CONFIG \in [cache_days : {CacheDays}, cache_retention_enabled : BOOLEAN,
                   passthrough_mode : BOOLEAN]
    /\ MIRRORS_CACHE = [n \in DOMAIN DefaultMirrors |->
                            [urls |-> DefaultMirrors[n], status |-> "approved"]]
    /\ db_mirrors = MIRRORS_CACHE
    /\ BLACKLIST_PATTERNS = StoredBlacklist
    /\ STATS = NoAccount
    /\ files = [p \in {} |-> 0]
    /\ inodes = [k \in 1..NumInodes |-> FreeInode]
    /\ now = 0
    /\ cleaner = [running |-> FALSE, cutoff |-> 0, todo |-> {}]
    /\ pc = [r \in Slots |-> "idle"]
    /\ req = [r \in Slots |-> 0]
    /\ loc = [r \in Slots |-> NoLocals]
    /\ fd = [r \in Slots |-> NoFd]
    /\ resp = [r \in Slots |-> NoResponse]
    /\ contacted = [r \in Slots |-> << >>]
    /\ acct = [r \in Slots |-> NoAccount]
    /\ fsops = [r \in Slots |-> {}]
    /\ accepted = 0
    /\ admin_ops = 0
    /\ api = [w \in ApiWorkers |-> IdleApi]
    /\ outside = {}
    /\ disk_config = CONFIG
    /\ probed = {}
    /\ tunnel = NoTunnel
    /\ flush = NoFlush
    /\ locking = NoLocking
    /\ db_blacklist = StoredTable

----------------------------------------------------------------------------
(* Helpers for the request threads *)

Goto(r, label) == pc' = [pc EXCEPT ![r] = label]
Respond(r, response) == resp' = [resp EXCEPT ![r] = response] /\ Goto(r, "done")

\* The record of upstream contacts: the answer of the latest contact in full, of
\* the earlier ones whether they were taken as a success
Summary(res) == [kind |-> IF is_success(res) THEN "ok" ELSE "failed", code |-> 0]
Logged(log, method, url, res) ==
    [j \in 1..Len(log) |-> [log[j] EXCEPT !.result = Summary(@)]]
        \o << [method |-> method, url |-> url, result |-> res] >>

\* The handler has returned: of its locals only what it did stays on record
Returned(l) == [NoLocals EXCEPT !.route = l.route, !.saved = l.saved]

\* with stats_lock: STATS[key] += n
AddStat(r, key, n) ==
    /\ STATS' = [STATS EXCEPT ![key] = @ + n]
    /\ acct' = [acct EXCEPT ![r][key] = @ + n]

----------------------------------------------------------------------------
(* main.py handle_all: routing *)

\* The server hands a request to a thread (the lowest one that is free).
\* Admin operations are explored in the behaviours where the requests are served
\* one at a time: a second thread starts only while no admin operation has run,
\* and an admin operation runs only while the second thread has not started.
OneAtATime == \A t \in Slots \ {1} : pc[t] = "idle"

Accept(r, q) ==
    /\ pc[r] \in {"idle", "done"}
    /\ r > 1 => admin_ops = 0
    /\ \A t \in Slots : pc[t] \in {"idle", "done"} => r <= t
    /\ accepted < MaxRequests
    /\ accepted' = accepted + 1
    /\ req' = [req EXCEPT ![r] = q]
    /\ loc' = [loc EXCEPT ![r] = NoLocals]
    /\ resp' = [resp EXCEPT ![r] = NoResponse]
    /\ contacted' = [contacted EXCEPT ![r] = << >>]
    /\ acct' = [acct EXCEPT ![r] = NoAccount]
    /\ fsops' = [fsops EXCEPT ![r] = {}]
    /\ Goto(r, "route")
    /\ UNCHANGED << globals, fd >>

\* lines 75-81: split the path; with two parts, mirrors_config = get_all_mirrors()
RouteSnapshot(r) ==
    /\ pc[r] = "route"
    /\ IF req[r] \in TwoParts
       THEN /\ loc' = [loc EXCEPT ![r].snap = ApprovedNames(MIRRORS_CACHE)]
            /\ Goto(r, "route_key")
       ELSE /\ loc' = loc
            /\ Goto(r, "unknown")
    /\ UNCHANGED << globals, req, fd, resp, contacted, acct, fsops, accepted >>

\* lines 84-88: upstream_key = get_upstream_key(...); managed if the key or the
\* distro is in mirrors_config
RouteDecide(r) ==
    /\ pc[r] = "route_key"
    /\ LET upstream_key == upstream_key_of(ApprovedNames(MIRRORS_CACHE), Distro(r), PackagePath(r))
       IN  IF upstream_key \in loc[r].snap \/ Distro(r) \in loc[r].snap
           THEN /\ loc' = [loc EXCEPT ![r].route = "managed", ![r].snap = {}]
                /\ Goto(r, "count")
           ELSE /\ loc' = [loc EXCEPT ![r].snap = {}]
                /\ Goto(r, "unknown")
    /\ UNCHANGED << globals, req, fd, resp, contacted, acct, fsops, accepted >>

\* lines 92-94 and 128-132: an unknown request is proxied when passthrough_mode is
\* on and request.url starts with "http", and answered 404 otherwise
Unknown(r) ==
    /\ pc[r] = "unknown"
    /\ IF CONFIG.passthrough_mode /\ url_startswith_http(request_url(TheRequest(r)))
       THEN /\ loc' = [loc EXCEPT ![r].route = "direct"]
            /\ Goto(r, "learn")
            /\ resp' = resp
       ELSE /\ loc' = [loc EXCEPT ![r] = [NoLocals EXCEPT !.route = "rejected"]]
            /\ Respond(r, [NoResponse EXCEPT !.status = 404])
    /\ UNCHANGED << globals, req, fd, contacted, acct, fsops, accepted >>

\* lines 98-111 with save_mirror_to_db lines 85-98: host = netloc; unless the host
\* is an approved mirror, save it as pending: refuse a self host, then HEAD its
\* only URL (the authority answers below 400 or not: an input), refuse if it fails
Learn(r, reachable) ==
    /\ pc[r] = "learn"
    /\ LET host == request_url(TheRequest(r)).netloc
       IN  host \in ApprovedNames(MIRRORS_CACHE) \/ is_self(host) => reachable
    /\ LET host == request_url(TheRequest(r)).netloc
           new_url == Url(host, << >>)
       IN  IF host \in ApprovedNames(MIRRORS_CACHE)
           THEN /\ Goto(r, "proxy")
                /\ loc' = loc
                /\ contacted' = contacted
           ELSE IF is_self(host)
           THEN /\ Goto(r, "proxy")
                /\ loc' = [loc EXCEPT ![r].saved = "self"]
                /\ contacted' = contacted
           ELSE /\ contacted' = [contacted EXCEPT ![r] =
                       Logged(@, "HEAD", new_url,
                              IF reachable THEN [kind |-> "status", code |-> 200]
                              ELSE [kind |-> "error", code |-> 0])]
                /\ IF reachable
                   THEN /\ loc' = [loc EXCEPT ![r].urls = <<new_url>>]
                        /\ Goto(r, "save_db")
                   ELSE /\ loc' = [loc EXCEPT ![r].saved = "unreachable"]
                        /\ Goto(r, "proxy")
    /\ UNCHANGED << globals, req, fd, resp, acct, fsops, accepted >>

\* save_mirror_to_db lines 100-107: INSERT OR REPLACE under db_lock; an error of
\* the store makes save return False
ApprovedEntry(urls) == [urls |-> urls, status |-> "approved"]
PendingEntry(urls) == [urls |-> urls, status |-> "pending"]

Upsert(table, name, entry) ==
    [n \in DOMAIN table \cup {name} |-> IF n = name THEN entry ELSE table[n]]

SaveDb(r, store_ok) ==
    /\ pc[r] = "save_db"
    /\ LET host == request_url(TheRequest(r)).netloc
       IN  IF store_ok
           THEN /\ db_mirrors' = Upsert(db_mirrors, host, PendingEntry(loc[r].urls))
                /\ loc' = loc
                /\ Goto(r, "save_mem")
           ELSE /\ db_mirrors' = db_mirrors
                /\ loc' = [loc EXCEPT ![r].saved = "store_error", ![r].urls = << >>]
                /\ Goto(r, "proxy")
    /\ UNCHANGED << side, CONFIG, MIRRORS_CACHE, BLACKLIST_PATTERNS, STATS, files, inodes, now,
                    cleaner, admin_ops, req, fd, resp, contacted, acct, fsops, accepted >>

\* save_mirror_to_db lines 109-116: the entry is put in MIRRORS_CACHE under mirrors_lock
SaveMem(r) ==
    /\ pc[r] = "save_mem"
    /\ LET host == request_url(TheRequest(r)).netloc
       IN  MIRRORS_CACHE' = Upsert(MIRRORS_CACHE, host, PendingEntry(loc[r].urls))
    /\ loc' = [loc EXCEPT ![r].saved = "yes", ![r].urls = << >>]
    /\ Goto(r, "proxy")
    /\ UNCHANGED << side, CONFIG, db_mirrors, BLACKLIST_PATTERNS, STATS, files, inodes, now,
                    cleaner, admin_ops, req, fd, resp, contacted, acct, fsops, accepted >>

\* services/proxy.py direct_proxy lines 37-57: GET the URL; a transport error gives
\* 502, any status is passed on with its body streamed by generate
DirectResults ==
    {[kind |-> "status", code |-> 200], [kind |-> "status", code |-> 404],
     [kind |-> "error", code |-> 0]}

DirectProxy(r, res) ==
    /\ pc[r] = "proxy"
    /\ contacted' = [contacted EXCEPT ![r] =
           Logged(@, "GET", request_url(TheRequest(r)), res)]
    /\ loc' = [loc EXCEPT ![r] = Returned(@)]
    /\ resp' = [resp EXCEPT ![r] =
           IF res.kind = "status"
           THEN [NoResponse EXCEPT !.status = res.code, !.source = "direct"]
           ELSE [NoResponse EXCEPT !.status = 502, !.source = "direct",
                                   !.error = "proxy error"]]
    /\ Goto(r, IF res.kind = "status" THEN "stream" ELSE "done")
    /\ UNCHANGED << globals, req, fd, acct, fsops, accepted >>

----------------------------------------------------------------------------
(* services/proxy.py proxy_package_logic and serve_from_cache *)

\* lines 61-62
Count(r) ==
    /\ pc[r] = "count"
    /\ AddStat(r, "requests_total", 1)
    /\ Goto(r, "check")
    /\ UNCHANGED << side, CONFIG, MIRRORS_CACHE, db_mirrors, BLACKLIST_PATTERNS, files, inodes,
                    now, cleaner, admin_ops, req, loc, fd, resp, contacted, fsops, accepted >>

\* line 65 with is_cache_valid lines 108-113: cache_path.exists() is False, a
\* miss is counted; with retention disabled the entry is valid, a hit is
\* counted; else the file is going to be examined
Check(r) ==
    /\ pc[r] = "check"
    /\ IF ~Exists(CachePath(r))
       THEN AddStat(r, "cache_misses", 1) /\ Goto(r, "key")
       ELSE IF ~CONFIG.cache_retention_enabled
       THEN AddStat(r, "cache_hits", 1) /\ Goto(r, "serve")
       ELSE Goto(r, "stat") /\ UNCHANGED << STATS, acct >>
    /\ UNCHANGED << side, CONFIG, MIRRORS_CACHE, db_mirrors, BLACKLIST_PATTERNS, files, inodes,
                    now, cleaner, admin_ops, req, loc, fd, resp, contacted, fsops, accepted >>

\* is_cache_valid lines 115-124 with lines 65-71: cache_path.stat() gives the
\* atime, a valid entry counts a hit and is served, an old one counts a miss.
\* If the file is gone by now, stat raises in the try and again in the except
\* branch; nothing up to the server catches it, which answers 500
CheckStat(r) ==
    /\ pc[r] = "stat"
    /\ IF ~Exists(CachePath(r))
       THEN /\ Respond(r, [NoResponse EXCEPT !.status = 500, !.error = "exception"])
            /\ loc' = [loc EXCEPT ![r] = Returned(@)]
            /\ UNCHANGED << STATS, acct >>
       ELSE IF is_cache_valid(CachePath(r))
       THEN AddStat(r, "cache_hits", 1) /\ Goto(r, "serve") /\ UNCHANGED << resp, loc >>
       ELSE AddStat(r, "cache_misses", 1) /\ Goto(r, "key") /\ UNCHANGED << resp, loc >>
    /\ UNCHANGED << side, CONFIG, MIRRORS_CACHE, db_mirrors, BLACKLIST_PATTERNS, files, inodes,
                    now, cleaner, admin_ops, req, fd, contacted, fsops, accepted >>

\* serve_from_cache: os.utime sets atime to now and keeps mtime (a failure is only
\* logged); stat gives the size, added to bytes_served; send_file opens the file.
\* A file that is gone makes stat raise, which is answered 500.
Serve(r) ==
    /\ pc[r] = "serve"
    /\ LET path == CachePath(r)
       IN  IF Exists(path)
           THEN /\ inodes' = [inodes EXCEPT ![files[path]].atime = now]
                /\ AddStat(r, "bytes_served", Len(inodes[files[path]].data))
                /\ Respond(r, [NoResponse EXCEPT !.status = 200, !.source = "cache",
                                                 !.body = Len(inodes[files[path]].data)])
           ELSE /\ UNCHANGED << inodes, STATS, acct >>
                /\ Respond(r, [NoResponse EXCEPT !.status = 500, !.source = "cache",
                                                 !.error = "error reading cache"])
    /\ loc' = [loc EXCEPT ![r] = Returned(@)]
    /\ UNCHANGED << side, CONFIG, MIRRORS_CACHE, db_mirrors, BLACKLIST_PATTERNS, files, now,
                    cleaner, admin_ops, req, fd, contacted, fsops, accepted >>

\* line 73: upstream_key = get_upstream_key(distro, package_path)
Key(r) ==
    /\ pc[r] = "key"
    /\ loc' = [loc EXCEPT ![r].key =
                  upstream_key_of(ApprovedNames(MIRRORS_CACHE), Distro(r), PackagePath(r))]
    /\ Goto(r, "resolve")
    /\ UNCHANGED << globals, req, fd, resp, contacted, acct, fsops, accepted >>

\* lines 74-89: mirrors_config = get_all_mirrors(); the key, else the distro, else
\* 404; the upstream URLs are the mirror's base URLs with the package path appended
Resolve(r) ==
    /\ pc[r] = "resolve"
    /\ LET mirrors_config == ApprovedNames(MIRRORS_CACHE)
           upstream_key == IF loc[r].key \in mirrors_config THEN loc[r].key ELSE Distro(r)
       IN  IF upstream_key \in mirrors_config
           THEN /\ loc' = [loc EXCEPT ![r].key = upstream_key,
                                      ![r].urls = [j \in 1..Len(MIRRORS_CACHE[upstream_key].urls) |->
                                          upstream_url(MIRRORS_CACHE[upstream_key].urls[j],
                                                       PackagePath(r))]]
                /\ Goto(r, "blacklist")
                /\ resp' = resp
           ELSE /\ loc' = [loc EXCEPT ![r] = Returned(@)]
                /\ Respond(r, [NoResponse EXCEPT !.status = 404, !.error = "unsupported"])
    /\ UNCHANGED << globals, req, fd, contacted, acct, fsops, accepted >>

----------------------------------------------------------------------------
(* services/cache_manager.py stream_and_cache *)

\* lines 305-306, after the loop: 502 with the last error
NotFoundWhenAll404(last_error) ==
    [NoResponse EXCEPT !.status = IF last_error.text = "404 Not Found" THEN 404 ELSE 502,
                       !.error = "all upstream mirrors failed", !.detail = last_error]
AllFailed(last_error) ==
    [NoResponse EXCEPT !.status = 502, !.error = "all upstream mirrors failed",
                       !.detail = last_error]

\* lines 196-207: should_cache = not is_blacklisted(real_filename); with no URL
\* the loop body never runs
Blacklist(r) ==
    /\ pc[r] = "blacklist"
    /\ IF loc[r].urls = << >>
       THEN /\ loc' = [loc EXCEPT ![r] = Returned(@)]
            /\ Respond(r, AllFailed(NoError))
       ELSE /\ loc' = [loc EXCEPT ![r].should_cache =
                          ~is_blacklisted(BLACKLIST_PATTERNS, real_filename_of(CachePath(r))),
                                  ![r].i = 1, ![r].last_error = NoError]
            /\ Goto(r, "fetch")
            /\ resp' = resp
    /\ UNCHANGED << globals, req, fd, contacted, acct, fsops, accepted >>

\* lines 209-306, one turn of the loop: GET urls[i]; 200, 206 and 304 end the loop
\* (the handler returns, the generator of the body runs later); every other answer
\* and every exception is recorded in last_error and the next URL is tried; after
\* the last URL the answer is 502
Fetch(r, res) ==
    /\ pc[r] = "fetch"
    /\ contacted' = [contacted EXCEPT ![r] = Logged(@, "GET", loc[r].urls[loc[r].i], res)]
    /\ IF is_success(res)
       THEN /\ loc' = [loc EXCEPT ![r] = Returned(@)]
            /\ resp' = [resp EXCEPT ![r] =
                   [NoResponse EXCEPT !.status = res.code, !.source = "upstream",
                                      !.at = IF res.code = 200 /\ loc[r].should_cache
                                             THEN now ELSE 0]]
            /\ Goto(r, CASE res.code = 304 -> "done"
                         [] res.code = 206 -> "stream"
                         [] loc[r].should_cache -> "caching"
                         [] OTHER -> "stream")
       ELSE IF loc[r].i = Len(loc[r].urls)
       THEN /\ loc' = [loc EXCEPT ![r] = Returned(@)]
            /\ Respond(r, AllFailed(error_string(res)))
       ELSE /\ loc' = [loc EXCEPT ![r].i = @ + 1, ![r].last_error = error_string(res)]
            /\ Goto(r, "fetch")
            /\ resp' = resp
    /\ UNCHANGED << globals, req, fd, acct, fsops, accepted >>

\* generate_partial and generate_stream: the body goes to the client only. Each
\* chunk read is counted and yielded; an error of the upstream stream ends the
\* response where it is.
Stream(r, ok) ==
    /\ pc[r] = "stream"
    /\ IF ok
       THEN /\ AddStat(r, "bytes_served", 1)
            /\ resp' = [resp EXCEPT ![r].body = @ + 1]
            /\ Goto(r, IF resp[r].body + 1 = BodyLen THEN "done" ELSE "stream")
       ELSE /\ UNCHANGED << STATS, acct >>
            /\ Respond(r, [resp[r] EXCEPT !.error = "upstream stream error"])
    /\ UNCHANGED << side, CONFIG, MIRRORS_CACHE, db_mirrors, BLACKLIST_PATTERNS, files, inodes,
                    now, cleaner, admin_ops, req, loc, fd, contacted, fsops, accepted >>

\* generate_cached line 254: open(temp_path, 'wb') creates the file, or truncates
\* the one that is there (its inode and atime stay); with no inode left it raises,
\* and the handler finds no temp file to unlink
CacheOpen(r) ==
    /\ pc[r] = "caching"
    /\ LET temp_path == TempPath(r)
       IN  IF Exists(temp_path)
           THEN /\ inodes' = [inodes EXCEPT ![files[temp_path]].data = << >>,
                                            ![files[temp_path]].mtime = now]
                /\ files' = files
                /\ fd' = [fd EXCEPT ![r] = [ino |-> files[temp_path], off |-> 0]]
                /\ fsops' = [fsops EXCEPT ![r] = @ \cup {temp_path}]
                /\ Goto(r, "write") /\ resp' = resp
           ELSE IF FreeInodes # {}
           THEN LET k == CHOOSE k \in FreeInodes : \A m \in FreeInodes : k <= m
                IN  /\ inodes' = [inodes EXCEPT ![k] =
                           [used |-> TRUE, data |-> << >>, atime |-> now, mtime |-> now]]
                    /\ files' = [p \in DOMAIN files \cup {temp_path} |->
                                    IF p = temp_path THEN k ELSE files[p]]
                    /\ fd' = [fd EXCEPT ![r] = [ino |-> k, off |-> 0]]
                    /\ fsops' = [fsops EXCEPT ![r] = @ \cup {temp_path}]
                    /\ Goto(r, "write") /\ resp' = resp
           ELSE /\ UNCHANGED << inodes, files, fd, fsops >>
                /\ Respond(r, [resp[r] EXCEPT !.error = "write error", !.at = 0])
    /\ UNCHANGED << side, CONFIG, MIRRORS_CACHE, db_mirrors, BLACKLIST_PATTERNS, STATS, now,
                    cleaner, admin_ops, req, loc, contacted, acct, accepted >>

\* lines 269-273: the file is closed by the with block; the handler unlinks the
\* temp file if it exists
AbortCleanup(r) ==
    LET temp_path == TempPath(r)
        closed == [fd EXCEPT ![r] = NoFd]
        left == IF Exists(temp_path) THEN Unlinked(files, temp_path) ELSE files
    IN  /\ fd' = closed
        /\ files' = left
        /\ inodes' = Collect(left, inodes, closed)

\* lines 255-261: the next chunk is written at the file position of this open
\* file, counted and yielded; an error (of the upstream stream or of the write) is
\* caught by the handler
CacheWrite(r, outcome) ==
    /\ pc[r] = "write"
    /\ resp[r].body < BodyLen
    /\ IF outcome = "chunk"
       THEN /\ inodes' = [inodes EXCEPT ![fd[r].ino].data = Written(@, fd[r].off, r),
                                        ![fd[r].ino].mtime = now]
            /\ fd' = [fd EXCEPT ![r].off = @ + 1]
            /\ files' = files
            /\ AddStat(r, "bytes_served", 1)
            /\ resp' = [resp EXCEPT ![r].body = @ + 1]
            /\ pc' = pc
       ELSE /\ AbortCleanup(r)
            /\ UNCHANGED << STATS, acct >>
            /\ Respond(r, [resp[r] EXCEPT !.error = "caching error", !.at = 0])
    /\ UNCHANGED << side, CONFIG, MIRRORS_CACHE, db_mirrors, BLACKLIST_PATTERNS, now, cleaner,
                    admin_ops, req, loc, contacted, fsops, accepted >>

\* lines 262-273, at the end of the stream: the file is closed and
\* temp_path.rename(cache_path) commits it; if the temp file is gone the rename
\* raises and the handler finds nothing to unlink
CacheCommit(r) ==
    /\ pc[r] = "write"
    /\ resp[r].body = BodyLen
    /\ LET temp_path == TempPath(r)
           closed == [fd EXCEPT ![r] = NoFd]
       IN  IF Exists(temp_path)
           THEN /\ files' = Renamed(files, temp_path, CachePath(r))
                /\ inodes' = Collect(files', inodes, closed)
                /\ fd' = closed
                /\ fsops' = [fsops EXCEPT ![r] = @ \cup {CachePath(r)}]
                /\ Respond(r, [resp[r] EXCEPT !.commit = "ok", !.at = 0])
           ELSE /\ files' = files
                /\ inodes' = Collect(files, inodes, closed)
                /\ fd' = closed
                /\ fsops' = fsops
                /\ Respond(r, [resp[r] EXCEPT !.commit = "failed", !.error = "rename error",
                                               !.at = 0])
    /\ UNCHANGED << side, CONFIG, MIRRORS_CACHE, db_mirrors, BLACKLIST_PATTERNS, STATS, now,
                    cleaner, admin_ops, req, loc, contacted, acct, accepted >>

\* The client goes away while the response generator is suspended at a yield: the
\* server closes the generator, GeneratorExit is raised at the yield. It is no
\* Exception, so generate_cached's handler does not run: the with block closes the
\* file and the temp file stays.
Disconnect(r) ==
    /\ pc[r] \in {"write", "stream"}
    /\ resp[r].body >= 1
    /\ fd' = [fd EXCEPT ![r] = NoFd]
    /\ inodes' = Collect(files, inodes, fd')
    /\ Respond(r, [resp[r] EXCEPT !.error = "client disconnected", !.at = 0])
    /\ UNCHANGED << side, CONFIG, MIRRORS_CACHE, db_mirrors, BLACKLIST_PATTERNS, STATS, files,
                    now, cleaner, admin_ops, req, loc, contacted, acct, fsops, accepted >>

----------------------------------------------------------------------------
(* The clock, the cleaner and the admin operations *)

\* A day passes. With retention disabled nothing reads the clock or a time stamp,
\* and the clock is left alone.
Tick ==
    /\ now < MaxTime
    /\ CONFIG.cache_retention_enabled
    /\ now' = now + 1
    /\ UNCHANGED << side, CONFIG, MIRRORS_CACHE, db_mirrors, BLACKLIST_PATTERNS, STATS, files,
                    inodes, cleaner, admin_ops, pc, req, loc, fd, resp, contacted, acct,
                    fsops, accepted >>

\* clean_old_cache lines 128-142, started by the background loop (main.py line 47)
\* or by /cleanup: nothing with retention disabled; else the cutoff is computed
\* once and the files of the storage tree are listed
CleanStart ==
    /\ ~cleaner.running
    /\ admin_ops < MaxAdminOps
    /\ OneAtATime
    /\ admin_ops' = admin_ops + 1
    /\ cleaner' = IF CONFIG.cache_retention_enabled
                  THEN [running |-> TRUE, cutoff |-> now - CONFIG.cache_days,
                        todo |-> DOMAIN files]
                  ELSE cleaner
    /\ UNCHANGED << side, CONFIG, MIRRORS_CACHE, db_mirrors, BLACKLIST_PATTERNS, STATS, files,
                    inodes, now, pc, req, loc, fd, resp, contacted, acct, fsops, accepted >>

ExpiredByAtime(stat, cutoff_time) == stat.atime < cutoff_time
ExpiredByMtime(stat, cutoff_time) == stat.mtime < cutoff_time
\* clean_old_cache lines 147-154: last_access is st_atime, or st_mtime if that is
\* later; the file is removed if last_access < cutoff_time
Expired(stat, cutoff_time) == Max(stat.atime, stat.mtime) < cutoff_time

\* clean_old_cache lines 143-158, one file: stat it, take the later of atime and
\* mtime, remove the file if that is before the cutoff; a file that is gone makes
\* stat raise, which is logged
CleanStep(path) ==
    /\ cleaner.running
    /\ path \in cleaner.todo
    /\ cleaner' = [cleaner EXCEPT !.todo = @ \ {path}]
    /\ IF Exists(path) /\ Expired(inodes[files[path]], cleaner.cutoff)
       THEN /\ files' = Unlinked(files, path)
            /\ inodes' = Collect(files', inodes, fd)
       ELSE UNCHANGED << files, inodes >>
    /\ UNCHANGED << side, CONFIG, MIRRORS_CACHE, db_mirrors, BLACKLIST_PATTERNS, STATS, now,
                    admin_ops, pc, req, loc, fd, resp, contacted, acct, fsops, accepted >>

\* the walk is over
CleanEnd ==
    /\ cleaner.running
    /\ cleaner.todo = {}
    /\ cleaner' = [running |-> FALSE, cutoff |-> 0, todo |-> {}]
    /\ UNCHANGED << side, CONFIG, MIRRORS_CACHE, db_mirrors, BLACKLIST_PATTERNS, STATS, files,
                    inodes, now, admin_ops, pc, req, loc, fd, resp, contacted, acct,
                    fsops, accepted >>

\* delete_cached_file, called by DELETE /api/admin/cache for a file that exists
AdminDeleteFile(path) ==
    /\ admin_ops < MaxAdminOps
    /\ OneAtATime
    /\ Exists(path)
    /\ admin_ops' = admin_ops + 1
    /\ files' = Unlinked(files, path)
    /\ inodes' = Collect(files', inodes, fd)
    /\ UNCHANGED << side, CONFIG, MIRRORS_CACHE, db_mirrors, BLACKLIST_PATTERNS, STATS, now,
                    cleaner, pc, req, loc, fd, resp, contacted, acct, fsops, accepted >>

\* update_mirror(name, status=status), called by PUT /api/admin/mirrors/<name>:
\* the urls stay, the status is set in the store and in memory
AdminUpdateMirror(name, status) ==
    /\ admin_ops < MaxAdminOps
    /\ OneAtATime
    /\ name \in DOMAIN MIRRORS_CACHE
    /\ name \in DOMAIN db_mirrors
    /\ status \in MirrorStatuses
    /\ status # MIRRORS_CACHE[name].status
    /\ admin_ops' = admin_ops + 1
    /\ db_mirrors' = [db_mirrors EXCEPT ![name].urls = MIRRORS_CACHE[name].urls,
                                        ![name].status = status]
    /\ MIRRORS_CACHE' = [MIRRORS_CACHE EXCEPT ![name].status = status]
    /\ UNCHANGED << side, CONFIG, BLACKLIST_PATTERNS, STATS, files, inodes, now, cleaner, pc,
                    req, loc, fd, resp, contacted, acct, fsops, accepted >>

\* delete_mirror(name), called by DELETE /api/admin/mirrors/<name>
AdminDeleteMirror(name) ==
    /\ admin_ops < MaxAdminOps
    /\ OneAtATime
    /\ name \in DOMAIN MIRRORS_CACHE
    /\ admin_ops' = admin_ops + 1
    /\ db_mirrors' = [n \in DOMAIN db_mirrors \ {name} |-> db_mirrors[n]]
    /\ MIRRORS_CACHE' = [n \in DOMAIN MIRRORS_CACHE \ {name} |-> MIRRORS_CACHE[n]]
    /\ UNCHANGED << side, CONFIG, BLACKLIST_PATTERNS, STATS, files, inodes, now, cleaner, pc,
                    req, loc, fd, resp, contacted, acct, fsops, accepted >>

----------------------------------------------------------------------------
(* The system *)

\* every path a request of the model can name: final and temp paths
AllPaths == {CachePathOf[q] : q \in TwoParts} \cup {TempPathOf[q] : q \in TwoParts}

AllNames == {S_ubuntu, S_ubuntu_security, S_new_example}

Next ==
    \/ \E r \in Slots, q \in AllRequests : Accept(r, q)
    \/ \E r \in Slots : RouteSnapshot(r)
    \/ \E r \in Slots : RouteDecide(r)
    \/ \E r \in Slots : Unknown(r)
    \/ \E r \in Slots, reachable \in BOOLEAN : Learn(r, reachable)
    \/ \E r \in Slots, store_ok \in BOOLEAN : SaveDb(r, store_ok)
    \/ \E r \in Slots : SaveMem(r)
    \/ \E r \in Slots, res \in DirectResults : DirectProxy(r, res)
    \/ \E r \in Slots : Count(r)
    \/ \E r \in Slots : Check(r)
    \/ \E r \in Slots : CheckStat(r)
    \/ \E r \in Slots : Serve(r)
    \/ \E r \in Slots : Key(r)
    \/ \E r \in Slots : Resolve(r)
    \/ \E r \in Slots : Blacklist(r)
    \/ \E r \in Slots, res \in UpstreamResults : Fetch(r, res)
    \/ \E r \in Slots, ok \in BOOLEAN : Stream(r, ok)
    \/ \E r \in Slots : CacheOpen(r)
    \/ \E r \in Slots, outcome \in {"chunk", "error"} : CacheWrite(r, outcome)
    \/ \E r \in Slots : CacheCommit(r)
    \/ \E r \in Slots : Disconnect(r)
    \/ Tick
    \/ CleanStart
    \/ \E path \in AllPaths : CleanStep(path)
    \/ CleanEnd
    \/ \E path \in AllPaths : AdminDeleteFile(path)
    \/ \E name \in AllNames, status \in MirrorStatuses : AdminUpdateMirror(name, status)
    \/ \E name \in AllNames : AdminDeleteMirror(name)

Spec == Init /\ [][Next]_vars

----------------------------------------------------------------------------
(* utils/routes.py: the admin interface. Its handlers run in threads of their own;
   the proxy's request threads stay idle in this part. *)

S_token == <<"t", "o", "k">>
S_Bearer == <<"B", "e", "a", "r", "e", "r", " ">>
S_dotdot == <<".", ".">>

\* s.split(c)
RECURSIVE Split(_, _)
Split(s, c) ==
    LET i == Find(s, c)
    IN  IF i = 0 THEN <<s>>
        ELSE <<SubSeq(s, 1, i - 1)>> \o Split(SubSeq(s, i + 1, Len(s)), c)

\* Authorization headers a client sends: none, the bare token, the Bearer form,
\* a wrong token, the token followed by another word
Headers ==
    { << >>, S_token, S_Bearer \o S_token, S_Bearer \o <<"b", "a", "d">>,
      S_Bearer \o S_token \o <<" ", "x">> }

AlwaysAllowed(token, auth_header) == TRUE
\* check_auth: no token configured allows everything; else the header must be
\* there, and the word after "Bearer " (or the whole header) must be the token
check_auth(token, auth_header) ==
    IF token = << >> THEN TRUE
    ELSE IF auth_header = << >> THEN FALSE
    ELSE LET received_token == IF StartsWith(auth_header, S_Bearer)
                               THEN Split(auth_header, " ")[2]
                               ELSE auth_header
         IN  received_token = token

\* Path(storage_path) / rel_path: an absolute right operand replaces the left
\* one; ".." segments are kept as they are
JoinPath(storage_path, rel_path) ==
    IF rel_path # << >> /\ Head(rel_path) = "/" THEN rel_path
    ELSE storage_path \o <<"/">> \o rel_path

\* what the operating system makes of a path: "" segments dropped, ".." steps up
RECURSIVE Walk(_, _)
Walk(done, segs) ==
    IF segs = << >> THEN done
    ELSE IF Head(segs) = << >> THEN Walk(done, Tail(segs))
    ELSE IF Head(segs) = S_dotdot
    THEN Walk(IF done = << >> THEN done ELSE SubSeq(done, 1, Len(done) - 1), Tail(segs))
    ELSE Walk(Append(done, Head(segs)), Tail(segs))

\* the file a path names: one of the storage tree (root/<distro>/<sub>/<name>) or
\* one outside of it
FileAt(full_path) ==
    LET segs == Walk(<< >>, Split(full_path, "/"))
        root == Walk(<< >>, Split(S_root, "/"))
        n    == Len(root)
    IN  IF Len(segs) = n + 3 /\ SubSeq(segs, 1, n) = root
        THEN [inside |-> TRUE,
              path |-> [distro |-> segs[n + 1], sub |-> segs[n + 2][1], name |-> segs[n + 3]]]
        ELSE [inside |-> FALSE, path |-> segs]

\* full_path.exists()
PathExists(full_path) ==
    LET f == FileAt(full_path)
    IN  IF f.inside THEN f.path \in DOMAIN files ELSE f.path \in outside

\* the path of a cache file relative to the storage root, as /api/cache/search
\* reports it
RelPathOf(cache_path) ==
    cache_path.distro \o <<"/", cache_path.sub, "/">> \o cache_path.name

OutsideFile == << <<"s", "r", "v">>, <<"k", "e", "y">> >>

\* path parameters: a cached file, a climb out of the storage root, an absolute
\* path, none
PathParams ==
    { << >>, RelPathOf(CachePathOf[1]),
      S_dotdot \o <<"/", "k", "e", "y">>,
      <<"/", "s", "r", "v", "/", "k", "e", "y">> }

\* the base URLs an admin names for a mirror
AdminUrl1 == Url(S_new_example, << >>)
AdminUrl2 == Url(<<"m">>, << >>)

S_self6 == <<":", ":", "1">>
S_glob_deb == <<"*", ".", "d", "e", "b">>

\* config.json holds every key of CONFIG but storage_path_resolved, which
\* load_config adds in memory
OnDisk(config) == [k \in DOMAIN config \ {"storage_path_resolved"} |-> config[k]]
\* a config.json that cannot be opened or is not JSON
NotAConfigFile == << >>
IsConfigFile(content) == content # NotAConfigFile
\* CONFIG.get('storage_path', 'storage'), made absolute: the default is the
\* storage root
StoragePath(config) ==
    IF "storage_path" \in DOMAIN config THEN config.storage_path ELSE S_root
\* storage_path.mkdir(parents=True, exist_ok=True) succeeds: not under S_nodir
Creatable(storage_path) == storage_path # S_nodir
\* CONFIG.get('log_level', 'INFO') and the names logging has a level for
LogLevel(config) == IF "log_level" \in DOMAIN config THEN config.log_level ELSE "INFO"
LogLevels == {"DEBUG", "INFO", "WARNING", "ERROR", "CRITICAL"}

\* the requests of the admin interface, before the Authorization header is chosen
ApiCalls ==
    {[NoApiRequest EXCEPT !.op = "add", !.name = a[1], !.has_urls = TRUE, !.urls = a[2],
                          !.status = "approved"] :
        a \in { <<S_new_example, <<AdminUrl1>> >>, <<S_new_example, <<AdminUrl1, AdminUrl2>> >>,
                <<S_new_example, << >> >>, <<S_proxy_addr, <<AdminUrl1>> >>,
                <<S_self6, <<AdminUrl1>> >> }}
    \cup
    {[NoApiRequest EXCEPT !.op = "update", !.name = n, !.has_urls = u[1], !.urls = u[2],
                          !.status = u[3]] :
        n \in {S_ubuntu, S_new_example},
        u \in { <<FALSE, << >>, "pending">>, <<FALSE, << >>, "bogus">>,
                <<TRUE, <<AdminUrl2>>, "none">>, <<TRUE, <<AdminUrl2>>, "pending">>,
                <<TRUE, << >>, "none">> }}
    \cup
    {[NoApiRequest EXCEPT !.op = "delete", !.name = n] : n \in {S_ubuntu, S_new_example}}
    \cup
    {[NoApiRequest EXCEPT !.op = "delete_cache", !.path = path] : path \in PathParams}
    \cup
    {[NoApiRequest EXCEPT !.op = "add", !.name = S_new_example, !.has_urls = TRUE,
                          !.urls = <<AdminUrl1>>, !.status = "bogus"],
     [NoApiRequest EXCEPT !.op = "add_blacklist", !.name = S_glob_deb],
     [NoApiRequest EXCEPT !.op = "add_blacklist"],
     [NoApiRequest EXCEPT !.op = "remove_blacklist"],
     [NoApiRequest EXCEPT !.op = "remove_blacklist", !.name = StoredBlacklist[2]],
     [NoApiRequest EXCEPT !.op = "cleanup"],
     [NoApiRequest EXCEPT !.op = "reload"],
     [NoApiRequest EXCEPT !.op = "config", !.key = "cache_days", !.days = 0],
     [NoApiRequest EXCEPT !.op = "config", !.key = "cache_days", !.days = CacheDays + 1],
     [NoApiRequest EXCEPT !.op = "config", !.key = "cache_retention_enabled"]}

\* /api/cache/download takes no token
ApiRequests ==
    {[c EXCEPT !.header = h] : c \in ApiCalls, h \in Headers}
        \cup {[NoApiRequest EXCEPT !.op = "download", !.path = path] : path \in PathParams}

\* what the admin interface never changes
admin_rest == << STATS, now, cleaner, admin_ops, tunnel, flush, locking, threads >>
admin_fixed == << admin_rest, db_blacklist >>

\* The state the admin interface is explored from: configuration loaded (with or
\* without an admin token), default mirrors seeded, one package cached at day 0
\* and seen either the same day or after its retention time, one file next to
\* the storage root
AdminInit ==
    /\ CONFIG \in [cache_days : {CacheDays}, cache_retention_enabled : {TRUE},
                   passthrough_mode : {TRUE}, admin_token : {<< >>, S_token},
                   storage_path_resolved : {S_root}]
    /\ disk_config = OnDisk(CONFIG)
    /\ MIRRORS_CACHE = [n \in DOMAIN DefaultMirrors |->
                            [urls |-> DefaultMirrors[n], status |-> "approved"]]
    /\ db_mirrors = MIRRORS_CACHE
    /\ BLACKLIST_PATTERNS = StoredBlacklist
    /\ STATS = NoAccount
    /\ files = (CachePathOf[1] :> 1)
    /\ inodes = [k \in 1..NumInodes |->
                    IF k = 1 THEN [used |-> TRUE, data |-> [j \in 1..BodyLen |-> 1],
                                   atime |-> 0, mtime |-> 0]
                    ELSE FreeInode]
    /\ now \in {0, CacheDays + 1}
    /\ cleaner = [running |-> FALSE, cutoff |-> 0, todo |-> {}]
    /\ pc = [r \in Slots |-> "idle"]
    /\ req = [r \in Slots |-> 0]
    /\ loc = [r \in Slots |-> NoLocals]
    /\ fd = [r \in Slots |-> NoFd]
    /\ resp = [r \in Slots |-> NoResponse]
    /\ contacted = [r \in Slots |-> << >>]
    /\ acct = [r \in Slots |-> NoAccount]
    /\ fsops = [r \in Slots |-> {}]
    /\ accepted = 0
    /\ admin_ops = 0
    /\ api = [w \in ApiWorkers |-> IdleApi]
    /\ outside = {OutsideFile}
    /\ probed = {}
    /\ tunnel = NoTunnel
    /\ flush = NoFlush
    /\ locking = NoLocking
    /\ db_blacklist = StoredTable

\* the handler returns with a status code
ApiDone(w, code) == api' = [api EXCEPT ![w].pc = "done", ![w].code = code]

\* a request reaches a thread of the admin interface (the lowest that is free)
ApiAccept(w, rq) ==
    /\ api[w].pc = "idle"
    /\ w > 1 => api[w - 1].pc # "idle"
    /\ api' = [api EXCEPT ![w] = [IdleApi EXCEPT !.pc = "auth", !.rq = rq]]
    /\ UNCHANGED << CONFIG, MIRRORS_CACHE, db_mirrors, BLACKLIST_PATTERNS, files, inodes,
                    outside, disk_config, probed, admin_fixed >>

\* every admin route begins "if not check_auth(): return 401"; the download route
\* has no such line
ApiAuth(w) ==
    /\ api[w].pc = "auth"
    /\ IF api[w].rq.op = "download" \/ check_auth(CONFIG.admin_token, api[w].rq.header)
       THEN api' = [api EXCEPT ![w].pc = api[w].rq.op, ![w].rq.header = << >>]
       ELSE api' = [api EXCEPT ![w].pc = "done", ![w].code = 401, ![w].rq.header = << >>]
    /\ UNCHANGED << CONFIG, MIRRORS_CACHE, db_mirrors, BLACKLIST_PATTERNS, files, inodes,
                    outside, disk_config, probed, admin_fixed >>

\* the names by which this process is reached: the proxy's own address, the
\* loopback name, the IPv6 loopback address
SelfHostNames == {S_localhost, S_proxy_addr, S_self6}

Unfiltered(urls, reach) == urls
\* validate_mirror over a list: the URLs that answer, in the order given
ValidUrls(urls, reach) ==
    LET answers(u) == u \in reach
    IN  SelectSeq(urls, answers)

UrlSet(urls) == {urls[j] : j \in 1..Len(urls)}

\* api_add_mirror lines 120-133 with save_mirror_to_db lines 85-98: 400 without
\* name or urls; a self name is refused; the URLs are probed (which of them
\* answer is an input) and with none left the save is refused
ApiAddMirror(w, reach) ==
    /\ api[w].pc = "add"
    /\ LET rq == api[w].rq
           refused == rq.name = << >> \/ rq.urls = << >> \/ is_self(rq.name)
           valid_urls == ValidUrls(rq.urls, reach)
       IN  /\ reach \subseteq (IF refused THEN {} ELSE UrlSet(rq.urls))
           /\ IF refused \/ valid_urls = << >>
              THEN ApiDone(w, 400)
              ELSE api' = [api EXCEPT ![w].pc = "add_db", ![w].new_urls = valid_urls,
                                      ![w].new_status = rq.status]
           /\ probed' = probed \cup reach
    /\ UNCHANGED << CONFIG, MIRRORS_CACHE, db_mirrors, BLACKLIST_PATTERNS, files, inodes,
                    outside, disk_config, admin_fixed >>

\* The "try" of the five mutations: the statement and its commit run inside
\* "with db_lock"; when one of them raises, the rest of the "try" (the block
\* that changes the structure in memory) is skipped and "except" returns False
CommittedAnyway(store_ok) == TRUE

Committed(store_ok) == store_ok

\* save_mirror_to_db lines 100-107: INSERT OR REPLACE under db_lock; an error of
\* the store makes save return False
ApiAddDb(w, store_ok) ==
    /\ api[w].pc = "add_db"
    /\ db_mirrors' = IF store_ok
                     THEN Upsert(db_mirrors, api[w].rq.name,
                                 [urls |-> api[w].new_urls, status |-> api[w].new_status])
                     ELSE db_mirrors
    /\ IF Committed(store_ok)
       THEN api' = [api EXCEPT ![w].pc = "add_mem"]
       ELSE ApiDone(w, 400)
    /\ UNCHANGED << CONFIG, MIRRORS_CACHE, BLACKLIST_PATTERNS, files, inodes, outside,
                    disk_config, probed, admin_fixed >>

\* save_mirror_to_db lines 109-116: the entry is put in MIRRORS_CACHE under mirrors_lock
ApiAddMem(w) ==
    /\ api[w].pc = "add_mem"
    /\ MIRRORS_CACHE' = Upsert(MIRRORS_CACHE, api[w].rq.name,
                               [urls |-> api[w].new_urls, status |-> api[w].new_status])
    /\ ApiDone(w, 200)
    /\ UNCHANGED << CONFIG, db_mirrors, BLACKLIST_PATTERNS, files, inodes, outside,
                    disk_config, probed, admin_fixed >>

\* update_mirror lines 124-144: the entry is read under mirrors_lock (False if it
\* is not there); a status outside the three is refused; URLs, if given, are
\* probed and with none left the update is refused
ApiUpdateMirror(w, reach) ==
    /\ api[w].pc = "update"
    /\ LET rq == api[w].rq
           known == rq.name \in DOMAIN MIRRORS_CACHE
           bad_status == rq.status # "none" /\ rq.status \notin MirrorStatuses
           probing == known /\ ~bad_status /\ rq.has_urls
           valid_urls == ValidUrls(rq.urls, reach)
       IN  /\ reach \subseteq (IF probing THEN UrlSet(rq.urls) ELSE {})
           /\ IF ~known \/ bad_status \/ (rq.has_urls /\ valid_urls = << >>)
              THEN ApiDone(w, 500)
              ELSE api' = [api EXCEPT
                      ![w].pc = "update_db",
                      ![w].new_urls = IF rq.has_urls THEN valid_urls
                                      ELSE MIRRORS_CACHE[rq.name].urls,
                      ![w].new_status = IF rq.status # "none" THEN rq.status
                                        ELSE MIRRORS_CACHE[rq.name].status]
           /\ probed' = probed \cup reach
    /\ UNCHANGED << CONFIG, MIRRORS_CACHE, db_mirrors, BLACKLIST_PATTERNS, files, inodes,
                    outside, disk_config, admin_fixed >>

\* update_mirror lines 146-154 and 166-168: UPDATE ... WHERE name under db_lock;
\* no row changed makes it return False, and so does an error of the store
ApiUpdateDb(w, store_ok) ==
    /\ api[w].pc = "update_db"
    /\ LET found == api[w].rq.name \in DOMAIN db_mirrors
       IN  /\ db_mirrors' = IF store_ok /\ found
                            THEN [db_mirrors EXCEPT ![api[w].rq.name] =
                                     [urls |-> api[w].new_urls,
                                      status |-> api[w].new_status]]
                            ELSE db_mirrors
           /\ IF Committed(store_ok) /\ found
              THEN api' = [api EXCEPT ![w].pc = "update_mem"]
              ELSE ApiDone(w, 500)
    /\ UNCHANGED << CONFIG, MIRRORS_CACHE, BLACKLIST_PATTERNS, files, inodes, outside,
                    disk_config, probed, admin_fixed >>

\* update_mirror lines 156-163: MIRRORS_CACHE[name] is assigned under mirrors_lock
ApiUpdateMem(w) ==
    /\ api[w].pc = "update_mem"
    /\ MIRRORS_CACHE' = Upsert(MIRRORS_CACHE, api[w].rq.name,
                               [urls |-> api[w].new_urls, status |-> api[w].new_status])
    /\ ApiDone(w, 200)
    /\ UNCHANGED << CONFIG, db_mirrors, BLACKLIST_PATTERNS, files, inodes, outside,
                    disk_config, probed, admin_fixed >>

\* delete_mirror lines 171-176 and 184-186: DELETE ... WHERE name under db_lock;
\* an error of the store makes it return False
ApiDeleteDb(w, store_ok) ==
    /\ api[w].pc = "delete"
    /\ db_mirrors' = IF store_ok
                     THEN [n \in DOMAIN db_mirrors \ {api[w].rq.name} |-> db_mirrors[n]]
                     ELSE db_mirrors
    /\ IF Committed(store_ok)
       THEN api' = [api EXCEPT ![w].pc = "delete_mem"]
       ELSE ApiDone(w, 500)
    /\ UNCHANGED << CONFIG, MIRRORS_CACHE, BLACKLIST_PATTERNS, files, inodes, outside,
                    disk_config, probed, admin_fixed >>

\* delete_mirror lines 178-183: the name is taken out of MIRRORS_CACHE under mirrors_lock
ApiDeleteMem(w) ==
    /\ api[w].pc = "delete_mem"
    /\ MIRRORS_CACHE' = [n \in DOMAIN MIRRORS_CACHE \ {api[w].rq.name} |-> MIRRORS_CACHE[n]]
    /\ ApiDone(w, 200)
    /\ UNCHANGED << CONFIG, db_mirrors, BLACKLIST_PATTERNS, files, inodes, outside,
                    disk_config, probed, admin_fixed >>

\* delete_cached_file with the route's lines 165-171: the joined path is
\* compared, as a string, with the storage root; the file it names is unlinked
ApiDeleteCache(w) ==
    /\ api[w].pc = "delete_cache"
    /\ LET rel_path == api[w].rq.path
           full_path == JoinPath(S_root, rel_path)
           f == FileAt(full_path)
       IN  IF rel_path = << >>
           THEN /\ ApiDone(w, 400)
                /\ UNCHANGED << files, inodes, outside >>
           ELSE IF ~StartsWith(full_path, S_root) \/ ~PathExists(full_path)
           THEN /\ ApiDone(w, 404)
                /\ UNCHANGED << files, inodes, outside >>
           ELSE /\ ApiDone(w, 200)
                /\ IF f.inside
                   THEN /\ files' = Unlinked(files, f.path)
                        /\ inodes' = Collect(files', inodes, fd)
                        /\ outside' = outside
                   ELSE /\ outside' = outside \ {f.path}
                        /\ UNCHANGED << files, inodes >>
    /\ UNCHANGED << CONFIG, MIRRORS_CACHE, db_mirrors, BLACKLIST_PATTERNS, disk_config,
                    probed, admin_fixed >>

\* api_download_cache: a path with ".." in it or a leading "/" is refused, a
\* path that names no file is not found, else the file is sent
ApiDownload(w) ==
    /\ api[w].pc = "download"
    /\ LET file_path == api[w].rq.path
           full_path == JoinPath(S_root, file_path)
       IN  IF file_path = << >> \/ Contains(file_path, S_dotdot) \/ Head(file_path) = "/"
           THEN ApiDone(w, 400)
           ELSE IF ~PathExists(full_path)
           THEN ApiDone(w, 404)
           ELSE api' = [api EXCEPT ![w].pc = "done", ![w].code = 200,
                                   ![w].sent = IF FileAt(full_path).inside THEN "cache"
                                               ELSE "outside"]
    /\ UNCHANGED << CONFIG, MIRRORS_CACHE, db_mirrors, BLACKLIST_PATTERNS, files, inodes,
                    outside, disk_config, probed, admin_fixed >>

\* api_add_blacklist with add_blacklist_pattern: INSERT OR IGNORE under
\* db_lock, then the pattern is appended unless already there; an error of the
\* store makes it return False, which the route answers with 500
ApiAddBlacklist(w, store_ok) ==
    /\ api[w].pc = "add_blacklist"
    /\ LET pattern == api[w].rq.name
       IN  IF pattern = << >>
           THEN /\ ApiDone(w, 400)
                /\ UNCHANGED << BLACKLIST_PATTERNS, db_blacklist >>
           ELSE /\ db_blacklist' = IF store_ok THEN db_blacklist \cup {pattern}
                                   ELSE db_blacklist
                /\ IF Committed(store_ok)
                   THEN /\ ApiDone(w, 200)
                        /\ BLACKLIST_PATTERNS' =
                               IF \E j \in 1..Len(BLACKLIST_PATTERNS) :
                                      BLACKLIST_PATTERNS[j] = pattern
                               THEN BLACKLIST_PATTERNS
                               ELSE Append(BLACKLIST_PATTERNS, pattern)
                   ELSE /\ ApiDone(w, 500)
                        /\ BLACKLIST_PATTERNS' = BLACKLIST_PATTERNS
    /\ UNCHANGED << CONFIG, MIRRORS_CACHE, db_mirrors, files, inodes, outside, disk_config,
                    probed, admin_rest >>

\* api_remove_blacklist with remove_blacklist_pattern: DELETE under db_lock,
\* then the pattern is taken out of the list; an error of the store makes it
\* return False, which the route answers with 500
ApiRemoveBlacklist(w, store_ok) ==
    /\ api[w].pc = "remove_blacklist"
    /\ LET pattern == api[w].rq.name
           other(x) == x # pattern
       IN  IF pattern = << >>
           THEN /\ ApiDone(w, 400)
                /\ UNCHANGED << BLACKLIST_PATTERNS, db_blacklist >>
           ELSE /\ db_blacklist' = IF store_ok THEN db_blacklist \ {pattern}
                                   ELSE db_blacklist
                /\ IF Committed(store_ok)
                   THEN /\ ApiDone(w, 200)
                        /\ BLACKLIST_PATTERNS' = SelectSeq(BLACKLIST_PATTERNS, other)
                   ELSE /\ ApiDone(w, 500)
                        /\ BLACKLIST_PATTERNS' = BLACKLIST_PATTERNS
    /\ UNCHANGED << CONFIG, MIRRORS_CACHE, db_mirrors, files, inodes, outside, disk_config,
                    probed, admin_rest >>

\* manual_cleanup: clean_old_cache over the storage tree, then 200
ApiCleanup(w) ==
    /\ api[w].pc = "cleanup"
    /\ LET cutoff_time == now - CONFIG.cache_days
           old == {path \in DOMAIN files :
                      Max(inodes[files[path]].atime, inodes[files[path]].mtime) < cutoff_time}
       IN  IF CONFIG.cache_retention_enabled
           THEN /\ files' = [path \in DOMAIN files \ old |-> files[path]]
                /\ inodes' = Collect(files', inodes, fd)
           ELSE UNCHANGED << files, inodes >>
    /\ ApiDone(w, 200)
    /\ UNCHANGED << CONFIG, MIRRORS_CACHE, db_mirrors, BLACKLIST_PATTERNS, outside,
                    disk_config, probed, admin_fixed >>

\* reload_configuration with load_config lines 50-51: config.json is read; a
\* file that cannot be opened or parsed raises, load_config returns False and
\* the route answers 500
ApiReloadRead(w) ==
    /\ api[w].pc = "reload"
    /\ IF IsConfigFile(disk_config)
       THEN api' = [api EXCEPT ![w].pc = "reload_mem", ![w].read = disk_config]
       ELSE ApiDone(w, 500)
    /\ UNCHANGED << CONFIG, MIRRORS_CACHE, db_mirrors, BLACKLIST_PATTERNS, files, inodes,
                    outside, disk_config, probed, admin_fixed >>

\* load_config lines 53-69, under config_lock, as far as it gets: CONFIG is
\* cleared and filled from what was read; the storage directory is made and
\* storage_path_resolved is set; the log level is set
ReloadedConfig(config, new_config) ==
    IF ~Creatable(StoragePath(new_config)) THEN new_config
    ELSE ("storage_path_resolved" :> StoragePath(new_config)) @@ new_config

\* load_config lines 53-76: True after the last of these steps; False if mkdir
\* or getattr(logging, log_level) raised
ApiReloadMem(w) ==
    /\ api[w].pc = "reload_mem"
    /\ CONFIG' = ReloadedConfig(CONFIG, api[w].read)
    /\ api' = [api EXCEPT ![w].pc = "done",
                          ![w].code = IF /\ Creatable(StoragePath(api[w].read))
                                         /\ LogLevel(api[w].read) \in LogLevels
                                      THEN 200 ELSE 500,
                          ![w].read = NoRead]
    /\ UNCHANGED << MIRRORS_CACHE, db_mirrors, BLACKLIST_PATTERNS, files, inodes, outside,
                    disk_config, probed, admin_fixed >>

\* the value api_update_config stores under the key of the request
ConfigSet(config, rq) ==
    IF rq.key = "cache_days" THEN [config EXCEPT !.cache_days = rq.days]
    ELSE [config EXCEPT !.cache_retention_enabled = rq.enabled]

\* api_update_config lines 88-92 and save_config_value lines 24-25: cache_days
\* below 1 is refused; else config.json is read
ApiConfigRead(w) ==
    /\ api[w].pc = "config"
    /\ IF api[w].rq.key = "cache_days" /\ api[w].rq.days < 1
       THEN ApiDone(w, 400)
       ELSE api' = [api EXCEPT ![w].pc = "config_write", ![w].read = disk_config]
    /\ UNCHANGED << CONFIG, MIRRORS_CACHE, db_mirrors, BLACKLIST_PATTERNS, files, inodes,
                    outside, disk_config, probed, admin_fixed >>

\* save_config_value lines 27-30: the key is set in what was read and the whole
\* file is written
ApiConfigWrite(w) ==
    /\ api[w].pc = "config_write"
    /\ disk_config' = ConfigSet(api[w].read, api[w].rq)
    /\ api' = [api EXCEPT ![w].pc = "config_mem", ![w].read = NoRead]
    /\ UNCHANGED << CONFIG, MIRRORS_CACHE, db_mirrors, BLACKLIST_PATTERNS, files, inodes,
                    outside, probed, admin_fixed >>

\* save_config_value lines 33-34: CONFIG[key] = value under config_lock
ApiConfigMem(w) ==
    /\ api[w].pc = "config_mem"
    /\ CONFIG' = ConfigSet(CONFIG, api[w].rq)
    /\ ApiDone(w, 200)
    /\ UNCHANGED << MIRRORS_CACHE, db_mirrors, BLACKLIST_PATTERNS, files, inodes, outside,
                    disk_config, probed, admin_fixed >>

\* an operator edits config.json by hand: passthrough_mode is switched off
ExternalEdit ==
    /\ disk_config.passthrough_mode
    /\ disk_config' = [disk_config EXCEPT !.passthrough_mode = FALSE]
    /\ UNCHANGED << CONFIG, MIRRORS_CACHE, db_mirrors, BLACKLIST_PATTERNS, files, inodes,
                    outside, probed, api, admin_fixed >>

AdminNext ==
    \/ \E w \in ApiWorkers, rq \in ApiRequests : ApiAccept(w, rq)
    \/ \E w \in ApiWorkers : ApiAuth(w)
    \/ \E w \in ApiWorkers, reach \in SUBSET {AdminUrl1, AdminUrl2} : ApiAddMirror(w, reach)
    \/ \E w \in ApiWorkers, store_ok \in BOOLEAN : ApiAddDb(w, store_ok)
    \/ \E w \in ApiWorkers : ApiAddMem(w)
    \/ \E w \in ApiWorkers, reach \in SUBSET {AdminUrl1, AdminUrl2} : ApiUpdateMirror(w, reach)
    \/ \E w \in ApiWorkers, store_ok \in BOOLEAN : ApiUpdateDb(w, store_ok)
    \/ \E w \in ApiWorkers : ApiUpdateMem(w)
    \/ \E w \in ApiWorkers, store_ok \in BOOLEAN : ApiDeleteDb(w, store_ok)
    \/ \E w \in ApiWorkers : ApiDeleteMem(w)
    \/ \E w \in ApiWorkers : ApiDeleteCache(w)
    \/ \E w \in ApiWorkers : ApiDownload(w)
    \/ \E w \in ApiWorkers, store_ok \in BOOLEAN : ApiAddBlacklist(w, store_ok)
    \/ \E w \in ApiWorkers, store_ok \in BOOLEAN : ApiRemoveBlacklist(w, store_ok)
    \/ \E w \in ApiWorkers : ApiCleanup(w)
    \/ \E w \in ApiWorkers : ApiReloadRead(w)
    \/ \E w \in ApiWorkers : ApiReloadMem(w)
    \/ \E w \in ApiWorkers : ApiConfigRead(w)
    \/ \E w \in ApiWorkers : ApiConfigWrite(w)
    \/ \E w \in ApiWorkers : ApiConfigMem(w)
    \/ ExternalEdit

AdminSpec == AdminInit /\ [][AdminNext]_vars

----------------------------------------------------------------------------
(* utils/config.py load_config behind the /reload route, with a config.json
   that is edited between the reloads *)

\* what config.json can hold: nothing that parses, or the options with
\* cache_days set, with or without a storage_path (one that can be made, one
\* that cannot) and with or without a log_level (one that logging has, one that
\* it has not)
ConfigFiles ==
    {NotAConfigFile} \cup
    { sp @@ ll @@ [cache_days |-> d, cache_retention_enabled |-> TRUE,
                   passthrough_mode |-> TRUE, admin_token |-> << >>] :
        d \in {CacheDays, CacheDays + 1},
        sp \in { << >>, "storage_path" :> S_nodir, "storage_path" :> S_root \o <<"2">> },
        ll \in { << >>, "log_level" :> "DEBUG", "log_level" :> "bogus" } }

ReloadRequests == {[NoApiRequest EXCEPT !.op = "reload", !.header = h] : h \in {<< >>, S_token}}

ReloadInit ==
    /\ CONFIG = [cache_days |-> CacheDays, cache_retention_enabled |-> TRUE,
                 passthrough_mode |-> TRUE, admin_token |-> << >>,
                 storage_path_resolved |-> S_root]
    /\ disk_config = OnDisk(CONFIG)
    /\ MIRRORS_CACHE = [n \in DOMAIN DefaultMirrors |->
                            [urls |-> DefaultMirrors[n], status |-> "approved"]]
    /\ db_mirrors = MIRRORS_CACHE
    /\ BLACKLIST_PATTERNS = StoredBlacklist
    /\ STATS = NoAccount
    /\ files = << >>
    /\ inodes = [k \in 1..NumInodes |-> FreeInode]
    /\ now = 0
    /\ cleaner = [running |-> FALSE, cutoff |-> 0, todo |-> {}]
    /\ pc = [r \in Slots |-> "idle"]
    /\ req = [r \in Slots |-> 0]
    /\ loc = [r \in Slots |-> NoLocals]
    /\ fd = [r \in Slots |-> NoFd]
    /\ resp = [r \in Slots |-> NoResponse]
    /\ contacted = [r \in Slots |-> << >>]
    /\ acct = [r \in Slots |-> NoAccount]
    /\ fsops = [r \in Slots |-> {}]
    /\ accepted = 0
    /\ admin_ops = 0
    /\ api = [w \in ApiWorkers |-> IdleApi]
    /\ outside = {}
    /\ probed = {}
    /\ tunnel = NoTunnel
    /\ flush = NoFlush
    /\ locking = NoLocking
    /\ db_blacklist = StoredTable

\* an operator saves config.json with other content
ConfigFileWritten(content) ==
    /\ content # disk_config
    /\ disk_config' = content
    /\ UNCHANGED << CONFIG, MIRRORS_CACHE, db_mirrors, BLACKLIST_PATTERNS, files, inodes,
                    outside, probed, api, admin_fixed >>

ReloadNext ==
    \/ \E content \in ConfigFiles : ConfigFileWritten(content)
    \/ \E w \in ApiWorkers, rq \in ReloadRequests : ApiAccept(w, rq)
    \/ \E w \in ApiWorkers : ApiAuth(w)
    \/ \E w \in ApiWorkers : ApiReloadRead(w)
    \/ \E w \in ApiWorkers : ApiReloadMem(w)

ReloadSpec == ReloadInit /\ [][ReloadNext]_vars

----------------------------------------------------------------------------
(* services/proxy.py handle_connect: the dial, the hand-over of the client
   socket, the "200 Connection Established" line and the relay loop of a CONNECT
   tunnel. tunnel.up and tunnel.cl are the upstream socket and the client socket
   as the handler holds them ("none": not opened / not obtained), tunnel.line
   whether the 200 line went to the client, tunnel.code the status of the
   Response the handler returns. tunnel.inbuf[t] is what the peer of socket t
   has sent and the loop has not read yet, tunnel.read[t] what the loop has read
   from t, tunnel.out[t] what it has written to t. *)

ByteValues == {"x", "y"}

Echo(s) == s
\* tunnel lines 157-160: what is read from the client goes to upstream, what is
\* read from upstream goes to the client
Destination(s) == IF s = "client" THEN "upstream" ELSE "client"

\* select.select(sockets, [], [], 10): the sockets with bytes or an end of stream
\* waiting, in the order of the list [client, upstream]
Readable(t) == [j \in {"client", "upstream"} |-> t.inbuf[j] # << >> \/ t.fin[j]]
ReadyList(t) ==
    (IF Readable(t)["client"] THEN <<"client">> ELSE << >>)
        \o (IF Readable(t)["upstream"] THEN <<"upstream">> ELSE << >>)

\* what the tunnel never touches
tunnel_fixed == << CONFIG, MIRRORS_CACHE, db_mirrors, BLACKLIST_PATTERNS, STATS, files,
                   inodes, now, cleaner, admin_ops, api, outside, disk_config, probed,
                   flush, locking, db_blacklist, threads >>

\* tunnel lines 164-167 and handle_connect line 174: "finally" closes both
\* sockets, then the handler returns an empty 200
UpstreamLeftOpen(t) ==
    [t EXCEPT !.pc = "closed", !.r = << >>, !.cl = "closed", !.code = 200]
Released(t) ==
    [t EXCEPT !.pc = "closed", !.r = << >>, !.up = "closed", !.cl = "closed", !.code = 200]

AlwaysBadGateway(stage) == 502
\* the status handle_connect answers when a stage before the relay fails: the
\* dial (line 179), the client socket (line 132), the 200 line (line 140)
FailureStatus(stage) ==
    CASE stage = "dial" -> 502
      [] stage = "socket" -> 501
      [] stage = "line" -> 500

\* lines 124-126: socket.create_connection((host, port), timeout=10); a failure
\* is caught at line 176 and answered 502
TunnelDial(ok) ==
    /\ tunnel.pc = "connect"
    /\ tunnel' = IF ok THEN [tunnel EXCEPT !.pc = "socket", !.up = "open"]
                 ELSE [tunnel EXCEPT !.pc = "done", !.code = FailureStatus("dial")]
    /\ UNCHANGED tunnel_fixed

\* lines 128-133: the client socket from the server's environment; without it
\* the upstream socket is closed and the answer is 501
TunnelSocket(have) ==
    /\ tunnel.pc = "socket"
    /\ tunnel' = IF have THEN [tunnel EXCEPT !.pc = "line", !.cl = "open"]
                 ELSE [tunnel EXCEPT !.pc = "done", !.up = "closed",
                                     !.code = FailureStatus("socket")]
    /\ UNCHANGED tunnel_fixed

\* lines 135-141: client_sock.sendall(b"HTTP/1.1 200 Connection Established...");
\* if that raises, the upstream socket is closed and the answer is 500
TunnelLine(ok) ==
    /\ tunnel.pc = "line"
    /\ tunnel' = IF ok THEN [tunnel EXCEPT !.pc = "select", !.line = TRUE]
                 ELSE [tunnel EXCEPT !.pc = "done", !.up = "closed",
                                     !.code = FailureStatus("line")]
    /\ UNCHANGED tunnel_fixed

\* a CONNECT request has been routed to handle_connect
TunnelInit ==
    /\ CONFIG = [cache_days |-> CacheDays, cache_retention_enabled |-> TRUE,
                 passthrough_mode |-> TRUE]
    /\ disk_config = CONFIG
    /\ MIRRORS_CACHE = [n \in DOMAIN DefaultMirrors |->
                            [urls |-> DefaultMirrors[n], status |-> "approved"]]
    /\ db_mirrors = MIRRORS_CACHE
    /\ BLACKLIST_PATTERNS = StoredBlacklist
    /\ STATS = NoAccount
    /\ files = [p \in {} |-> 0]
    /\ inodes = [k \in 1..NumInodes |-> FreeInode]
    /\ now = 0
    /\ cleaner = [running |-> FALSE, cutoff |-> 0, todo |-> {}]
    /\ pc = [r \in Slots |-> "idle"]
    /\ req = [r \in Slots |-> 0]
    /\ loc = [r \in Slots |-> NoLocals]
    /\ fd = [r \in Slots |-> NoFd]
    /\ resp = [r \in Slots |-> NoResponse]
    /\ contacted = [r \in Slots |-> << >>]
    /\ acct = [r \in Slots |-> NoAccount]
    /\ fsops = [r \in Slots |-> {}]
    /\ accepted = 0
    /\ admin_ops = 0
    /\ api = [w \in ApiWorkers |-> IdleApi]
    /\ outside = {}
    /\ probed = {}
    /\ tunnel = [NoTunnel EXCEPT !.pc = "connect"]
    /\ flush = NoFlush
    /\ locking = NoLocking
    /\ db_blacklist = StoredTable

\* a peer sends one more byte into its end of the tunnel
PeerSend(t, b) ==
    /\ tunnel.pc \in {"select", "recv", "send"}
    /\ ~tunnel.fin[t]
    /\ tunnel.sent[t] < MaxStream
    /\ tunnel' = [tunnel EXCEPT !.sent[t] = @ + 1, !.inbuf[t] = Append(@, b)]
    /\ UNCHANGED tunnel_fixed

\* a peer closes its end: after its pending bytes, recv returns b''
PeerClose(t) ==
    /\ tunnel.pc \in {"select", "recv", "send"}
    /\ ~tunnel.fin[t]
    /\ tunnel' = [tunnel EXCEPT !.fin[t] = TRUE]
    /\ UNCHANGED tunnel_fixed

\* tunnel lines 150-152: select returns the readable sockets (an empty list after
\* the timeout goes round the loop again)
TunnelSelect ==
    /\ tunnel.pc = "select"
    /\ ReadyList(tunnel) # << >>
    /\ tunnel' = [tunnel EXCEPT !.pc = "recv", !.r = ReadyList(tunnel)]
    /\ UNCHANGED tunnel_fixed

\* tunnel lines 154-157: data = s.recv(8192) on the next socket of r; no data
\* returns from the loop, and "finally" closes both sockets. A reset connection
\* makes recv raise, which ends the loop the same way.
TunnelRecv(n, reset) ==
    /\ tunnel.pc = "recv"
    /\ LET s == Head(tunnel.r)
           pending == tunnel.inbuf[s]
       IN  IF reset
           THEN /\ n = 0
                /\ tunnel' = Released(tunnel)
           ELSE IF pending = << >>
           THEN /\ n = 0
                /\ tunnel' = Released([tunnel EXCEPT !.eof = TRUE])
           ELSE /\ n \in 1..(IF Len(pending) < RecvMax THEN Len(pending) ELSE RecvMax)
                /\ tunnel' = [tunnel EXCEPT
                       !.pc = "send", !.s = s, !.r = Tail(@),
                       !.data = SubSeq(pending, 1, n),
                       !.inbuf[s] = SubSeq(pending, n + 1, Len(pending)),
                       !.read[s] = @ \o SubSeq(pending, 1, n)]
    /\ UNCHANGED tunnel_fixed

\* tunnel lines 157-160: sendall(data) to the other socket; it either writes all
\* of data or raises after the first k bytes, which ends the loop
TunnelSend(k) ==
    /\ tunnel.pc = "send"
    /\ k \in 0..Len(tunnel.data)
    /\ LET to == Destination(tunnel.s)
           wrote == [tunnel EXCEPT !.out[to] = @ \o SubSeq(tunnel.data, 1, k),
                                   !.data = << >>, !.s = "none"]
       IN  tunnel' = IF k < Len(tunnel.data)
                     THEN Released(wrote)
                     ELSE [wrote EXCEPT !.pc = IF tunnel.r = << >> THEN "select" ELSE "recv"]
    /\ UNCHANGED tunnel_fixed

TunnelNext ==
    \/ \E ok \in BOOLEAN : TunnelDial(ok)
    \/ \E have \in BOOLEAN : TunnelSocket(have)
    \/ \E ok \in BOOLEAN : TunnelLine(ok)
    \/ \E t \in Sockets, b \in ByteValues : PeerSend(t, b)
    \/ \E t \in Sockets : PeerClose(t)
    \/ TunnelSelect
    \/ \E n \in 0..RecvMax, reset \in BOOLEAN : TunnelRecv(n, reset)
    \/ \E k \in 0..RecvMax : TunnelSend(k)

TunnelSpec == TunnelInit /\ [][TunnelNext]_vars

----------------------------------------------------------------------------
(* services/stats.py save_stats_to_db, run by the background loop every minute
   and after a cached download, next to request threads that count under
   stats_lock. *)

\* the counters in the order save_stats_to_db writes them
StatKeys == <<"requests_total", "cache_hits", "cache_misses", "bytes_served">>

\* what a flush never touches
flush_fixed == << CONFIG, MIRRORS_CACHE, db_mirrors, BLACKLIST_PATTERNS, files, inodes, now,
                  cleaner, admin_ops, api, outside, disk_config, probed, tunnel, locking,
                  db_blacklist, threads >>

FlushInit ==
    /\ CONFIG = [cache_days |-> CacheDays, cache_retention_enabled |-> TRUE,
                 passthrough_mode |-> TRUE]
    /\ disk_config = CONFIG
    /\ MIRRORS_CACHE = [n \in DOMAIN DefaultMirrors |->
                            [urls |-> DefaultMirrors[n], status |-> "approved"]]
    /\ db_mirrors = MIRRORS_CACHE
    /\ BLACKLIST_PATTERNS = StoredBlacklist
    /\ STATS = NoAccount
    /\ files = [p \in {} |-> 0]
    /\ inodes = [k \in 1..NumInodes |-> FreeInode]
    /\ now = 0
    /\ cleaner = [running |-> FALSE, cutoff |-> 0, todo |-> {}]
    /\ pc = [r \in Slots |-> "idle"]
    /\ req = [r \in Slots |-> 0]
    /\ loc = [r \in Slots |-> NoLocals]
    /\ fd = [r \in Slots |-> NoFd]
    /\ resp = [r \in Slots |-> NoResponse]
    /\ contacted = [r \in Slots |-> << >>]
    /\ acct = [r \in Slots |-> NoAccount]
    /\ fsops = [r \in Slots |-> {}]
    /\ accepted = 0
    /\ admin_ops = 0
    /\ api = [w \in ApiWorkers |-> IdleApi]
    /\ outside = {}
    /\ probed = {}
    /\ tunnel = NoTunnel
    /\ flush = NoFlush
    /\ locking = NoLocking
    /\ db_blacklist = StoredTable

\* a request thread: with stats_lock: STATS[key] += 1 (it waits while the lock is held)
Bump(key) ==
    /\ flush.stats_lock = "none"
    /\ STATS[key] < MaxCount
    /\ STATS' = [STATS EXCEPT ![key] = @ + 1]
    /\ UNCHANGED << flush, flush_fixed >>

\* save_stats_to_db line 62: with db_lock
FlushLockDb ==
    /\ flush.pc = "idle"
    /\ flush.runs < MaxFlushes
    /\ flush' = [flush EXCEPT !.pc = "connect", !.db_lock = "flush", !.runs = @ + 1]
    /\ UNCHANGED << STATS, flush_fixed >>

\* lines 63-64: the connection to the store is opened; a failure is caught at
\* line 72 and db_lock is released
FlushConnect(ok) ==
    /\ flush.pc = "connect"
    /\ flush' = IF ok THEN [flush EXCEPT !.pc = "lock_stats"]
                ELSE [flush EXCEPT !.pc = "idle", !.db_lock = "none"]
    /\ UNCHANGED << STATS, flush_fixed >>

\* line 66: with stats_lock
FlushLockStats ==
    /\ flush.pc = "lock_stats"
    /\ flush.stats_lock = "none"
    /\ flush' = [flush EXCEPT !.pc = "execute", !.stats_lock = "flush", !.i = 1]
    /\ UNCHANGED << STATS, flush_fixed >>

\* lines 67-68: cursor.execute('UPDATE stats SET value = ? WHERE key = ?') for
\* the next key: the statement is handed to the store
FlushExecute ==
    /\ flush.pc = "execute"
    /\ ~flush.io
    /\ flush' = [flush EXCEPT !.io = TRUE,
                              !.pending[StatKeys[flush.i]] = STATS[StatKeys[flush.i]]]
    /\ UNCHANGED << STATS, flush_fixed >>

\* the statement returns, or raises: then both with blocks release their locks
\* and nothing is committed
FlushExecuted(ok) ==
    /\ flush.pc = "execute"
    /\ flush.io
    /\ flush' = IF ~ok
                THEN [flush EXCEPT !.pc = "idle", !.io = FALSE, !.i = 0, !.stats_lock = "none",
                                   !.db_lock = "none", !.pending = flush.db_stats]
                ELSE IF flush.i < Len(StatKeys)
                THEN [flush EXCEPT !.io = FALSE, !.i = @ + 1]
                ELSE [flush EXCEPT !.io = FALSE, !.i = 0, !.pc = "commit",
                                   !.stats_lock = "none"]
    /\ UNCHANGED << STATS, flush_fixed >>

\* lines 70-71: conn.commit(), conn.close(), and db_lock is released
FlushCommit ==
    /\ flush.pc = "commit"
    /\ flush' = [flush EXCEPT !.pc = "idle", !.db_stats = flush.pending, !.db_lock = "none"]
    /\ UNCHANGED << STATS, flush_fixed >>

FlushNext ==
    \/ \E key \in DOMAIN NoAccount : Bump(key)
    \/ FlushLockDb
    \/ \E ok \in BOOLEAN : FlushConnect(ok)
    \/ FlushLockStats
    \/ FlushExecute
    \/ \E ok \in BOOLEAN : FlushExecuted(ok)
    \/ FlushCommit

FlushSpec == FlushInit /\ [][FlushNext]_vars

----------------------------------------------------------------------------
(* services/cache_manager.py clean_old_cache over a storage tree that holds
   files of several ages, while another thread may remove a file. *)

\* the time stamps (atime, mtime) of the files when the run starts, at day
\* CacheDays + 1: both old, only atime old, only mtime old, both at the cutoff
StampsAtStart == { <<0, 0>>, <<0, CacheDays + 1>>, <<CacheDays + 1, 0>>, <<CacheDays, CacheDays>> }

\* the files of the storage tree: two cache entries and a temp file
StoredPaths == << CachePathOf[1], CachePathOf[2], TempPathOf[1] >>

CleanInit ==
    /\ CONFIG \in [cache_days : {CacheDays}, cache_retention_enabled : BOOLEAN,
                   passthrough_mode : {TRUE}]
    /\ disk_config = CONFIG
    /\ MIRRORS_CACHE = [n \in DOMAIN DefaultMirrors |->
                            [urls |-> DefaultMirrors[n], status |-> "approved"]]
    /\ db_mirrors = MIRRORS_CACHE
    /\ BLACKLIST_PATTERNS = StoredBlacklist
    /\ STATS = NoAccount
    /\ files = [path \in {StoredPaths[k] : k \in DOMAIN StoredPaths} |->
                   CHOOSE k \in DOMAIN StoredPaths : StoredPaths[k] = path]
    /\ inodes \in {[k \in 1..NumInodes |->
                       IF k \in DOMAIN StoredPaths
                       THEN [used |-> TRUE, data |-> [j \in 1..BodyLen |-> 1],
                             atime |-> st[k][1], mtime |-> st[k][2]]
                       ELSE FreeInode] :
                   st \in [DOMAIN StoredPaths -> StampsAtStart]}
    /\ now = CacheDays + 1
    /\ cleaner = [running |-> FALSE, cutoff |-> 0, todo |-> {}]
    /\ pc = [r \in Slots |-> "idle"]
    /\ req = [r \in Slots |-> 0]
    /\ loc = [r \in Slots |-> NoLocals]
    /\ fd = [r \in Slots |-> NoFd]
    /\ resp = [r \in Slots |-> NoResponse]
    /\ contacted = [r \in Slots |-> << >>]
    /\ acct = [r \in Slots |-> NoAccount]
    /\ fsops = [r \in Slots |-> {}]
    /\ accepted = 0
    /\ admin_ops = 0
    /\ api = [w \in ApiWorkers |-> IdleApi]
    /\ outside = {}
    /\ probed = {}
    /\ tunnel = NoTunnel
    /\ flush = NoFlush
    /\ locking = NoLocking
    /\ db_blacklist = StoredTable

\* delete_cached_file by an admin request while the walk is going on: the file
\* is gone when the walk comes to it, and os.stat raises
FileVanishes(path) ==
    /\ cleaner.running
    /\ Exists(path)
    /\ files' = Unlinked(files, path)
    /\ inodes' = Collect(files', inodes, fd)
    /\ UNCHANGED << side, CONFIG, MIRRORS_CACHE, db_mirrors, BLACKLIST_PATTERNS, STATS, now,
                    cleaner, admin_ops, pc, req, loc, fd, resp, contacted, acct, fsops,
                    accepted >>

\* serve_from_cache line 23 by a request that is served the file while the walk
\* is going on: os.utime sets st_atime to now and keeps st_mtime
FileServed(path) ==
    /\ cleaner.running
    /\ Exists(path)
    /\ inodes[files[path]].atime # now
    /\ inodes' = [inodes EXCEPT ![files[path]].atime = now]
    /\ UNCHANGED << side, CONFIG, MIRRORS_CACHE, db_mirrors, BLACKLIST_PATTERNS, STATS, now,
                    files, cleaner, admin_ops, pc, req, loc, fd, resp, contacted, acct, fsops,
                    accepted >>

CleanNext ==
    \/ CleanStart
    \/ \E path \in AllPaths : CleanStep(path)
    \/ CleanEnd
    \/ \E path \in AllPaths : FileVanishes(path)
    \/ \E path \in AllPaths : FileServed(path)

CleanSpec == CleanInit /\ [][CleanNext]_vars

----------------------------------------------------------------------------
(* The locks. Every function that takes a lock is written as the sequence of
   its steps: "acq" and "rel" of a lock are the entry and the exit of a "with"
   block of that lock, "io" is a step (a statement of the persistent store, a
   file or network operation, an early return) at which the function may also
   leave through an exception or a return, and then every "with" block it is in
   releases its lock. *)

Acq(l) == << <<"acq", l>> >>
Rel(l) == << <<"rel", l>> >>
Io == << <<"io", "none">> >>
With(l) == Acq(l) \o Rel(l)

\* utils/config.py get_config: config_lock around one dictionary read
GetConfig == With("config_lock")
\* services/database.py get_db_connection: get_config; sqlite3.connect is part
\* of the "io" step that follows it
DbConnection == GetConfig

\* stats.py lines 43-56: db_lock; SELECT; stats_lock around the copy; close
load_stats_from_db_steps ==
    Acq("db_lock") \o DbConnection \o Io \o With("stats_lock") \o Io \o Rel("db_lock")
\* stats.py lines 62-71: db_lock; stats_lock around the UPDATEs; commit, close
save_stats_to_db_steps ==
    Acq("db_lock") \o DbConnection \o Acq("stats_lock") \o Io \o Rel("stats_lock") \o Io
        \o Rel("db_lock")
\* mirrors.py lines 18-35: db_lock; SELECT; mirrors_lock around the refill; close
load_mirrors_from_db_steps ==
    Acq("db_lock") \o DbConnection \o Io \o With("mirrors_lock") \o Io \o Rel("db_lock")
\* mirrors.py lines 85-113: is_self and validate_mirror without a lock; db_lock
\* around the INSERT; then mirrors_lock around the assignment
save_mirror_to_db_steps ==
    Io \o Acq("db_lock") \o DbConnection \o Io \o Rel("db_lock") \o With("mirrors_lock")
\* update_mirror as it would be with the store written inside the first
\* mirrors_lock block
update_mirror_nested_steps ==
    Acq("mirrors_lock") \o Io \o Acq("db_lock") \o DbConnection \o Io \o Rel("db_lock")
        \o Rel("mirrors_lock")
\* mirrors.py lines 124-160 with mirrors_lock released before db_lock is taken
update_mirror_steps ==
    Acq("mirrors_lock") \o Io \o Rel("mirrors_lock") \o Io
        \o Acq("db_lock") \o DbConnection \o Io \o Rel("db_lock") \o With("mirrors_lock")
\* mirrors.py lines 171-180
delete_mirror_steps ==
    Acq("db_lock") \o DbConnection \o Io \o Rel("db_lock") \o With("mirrors_lock")
\* cache_manager.py lines 23-30: db_lock; SELECT; blacklist_lock around the assignment
load_blacklist_from_db_steps ==
    Acq("db_lock") \o DbConnection \o Io \o With("blacklist_lock") \o Rel("db_lock")
\* cache_manager.py lines 39-48 and 59-68: db_lock around the statement, then
\* blacklist_lock around the list operation
blacklist_pattern_steps ==
    Acq("db_lock") \o DbConnection \o Io \o Rel("db_lock") \o With("blacklist_lock")
\* config.py lines 50-69: the file is read; config_lock around clear, update,
\* mkdir and setLevel
load_config_steps == Io \o Acq("config_lock") \o Io \o Rel("config_lock")
\* config.py lines 24-38: the file is rewritten; config_lock around the assignment
save_config_value_steps == Io \o Acq("config_lock") \o Io \o Rel("config_lock")
\* proxy.py lines 61-97 and cache_manager.py stream_and_cache, each lock once
\* for the blocks that follow one another: requests_total; get_cache_path and
\* is_cache_valid read the configuration; the hit or miss counter; the
\* registry; add_log; the blacklist; the fetch; bytes_served
proxy_package_logic_steps ==
    With("stats_lock") \o GetConfig \o Io \o With("stats_lock") \o With("mirrors_lock")
        \o With("log_lock") \o With("blacklist_lock") \o Io \o With("stats_lock")
\* main.py handle_all lines 106-122: get_all_mirrors, then save_mirror_to_db
direct_proxy_steps == With("mirrors_lock") \o save_mirror_to_db_steps
\* routes.py lines 46-64: the four in-memory structures one after the other
api_stats_steps ==
    With("stats_lock") \o With("file_stats_lock") \o With("mirrors_lock") \o With("log_lock")
\* stats.py lines 76-110: get_config; the walk; file_stats_lock around the result
update_file_stats_steps == GetConfig \o Io \o With("file_stats_lock")
\* cache_manager.py lines 129-166: the configuration is read; the walk
clean_old_cache_steps == GetConfig \o Io

\* what each kind of thread runs: main.py lines 134-147, the request routes,
\* the admin routes, background_tasks
Programs ==
    [ main |-> [ load_stats_from_db |-> load_stats_from_db_steps,
                 load_mirrors_from_db |-> load_mirrors_from_db_steps,
                 load_blacklist_from_db |-> load_blacklist_from_db_steps ],
      request |-> [ proxy_package_logic |-> proxy_package_logic_steps,
                    direct_proxy |-> direct_proxy_steps,
                    api_stats |-> api_stats_steps ],
      admin |-> [ save_mirror_to_db |-> save_mirror_to_db_steps,
                  update_mirror |-> update_mirror_steps,
                  delete_mirror |-> delete_mirror_steps,
                  blacklist_pattern |-> blacklist_pattern_steps,
                  load_config |-> load_config_steps,
                  save_config_value |-> save_config_value_steps ],
      background |-> [ save_stats_to_db |-> save_stats_to_db_steps,
                       update_file_stats |-> update_file_stats_steps,
                       clean_old_cache |-> clean_old_cache_steps ] ]

lock_fixed == << CONFIG, MIRRORS_CACHE, db_mirrors, BLACKLIST_PATTERNS, STATS, files, inodes,
                 now, cleaner, admin_ops, api, outside, disk_config, probed, tunnel, flush,
                 db_blacklist, threads >>

Running(t) == locking.th[t].op # "none"
\* the step thread t is at
StepOf(t) == Programs[t][locking.th[t].op][locking.th[t].i]
\* thread t after that step: at the next one, or returned after the last one
Stepped(t) ==
    IF locking.th[t].i < Len(Programs[t][locking.th[t].op])
    THEN [locking.th[t] EXCEPT !.i = @ + 1]
    ELSE [op |-> "none", i |-> 0]
HeldBy(t) == {l \in Locks : locking.owner[l] = t}

LockInit ==
    /\ CONFIG = [cache_days |-> CacheDays, cache_retention_enabled |-> TRUE,
                 passthrough_mode |-> TRUE]
    /\ disk_config = CONFIG
    /\ MIRRORS_CACHE = [n \in DOMAIN DefaultMirrors |->
                            [urls |-> DefaultMirrors[n], status |-> "approved"]]
    /\ db_mirrors = MIRRORS_CACHE
    /\ BLACKLIST_PATTERNS = StoredBlacklist
    /\ STATS = NoAccount
    /\ files = << >>
    /\ inodes = [k \in 1..NumInodes |-> FreeInode]
    /\ now = 0
    /\ cleaner = [running |-> FALSE, cutoff |-> 0, todo |-> {}]
    /\ pc = [r \in Slots |-> "idle"]
    /\ req = [r \in Slots |-> 0]
    /\ loc = [r \in Slots |-> NoLocals]
    /\ fd = [r \in Slots |-> NoFd]
    /\ resp = [r \in Slots |-> NoResponse]
    /\ contacted = [r \in Slots |-> << >>]
    /\ acct = [r \in Slots |-> NoAccount]
    /\ fsops = [r \in Slots |-> {}]
    /\ accepted = 0
    /\ admin_ops = 0
    /\ api = [w \in ApiWorkers |-> IdleApi]
    /\ outside = {}
    /\ probed = {}
    /\ tunnel = NoTunnel
    /\ flush = NoFlush
    /\ locking = NoLocking
    /\ db_blacklist = StoredTable

\* a thread enters one of its functions
LockCall(t, op) ==
    /\ ~Running(t)
    /\ locking' = [locking EXCEPT !.th[t] = [op |-> op, i |-> 1]]
    /\ UNCHANGED lock_fixed

\* "with lock:" is entered: Lock.acquire waits until nobody holds the lock
LockAcquire(t) ==
    /\ Running(t)
    /\ StepOf(t)[1] = "acq"
    /\ locking.owner[StepOf(t)[2]] = "none"
    /\ locking' = [locking EXCEPT !.owner[StepOf(t)[2]] = t, !.th[t] = Stepped(t)]
    /\ UNCHANGED lock_fixed

\* the "with" block is left at its end
LockRelease(t) ==
    /\ Running(t)
    /\ StepOf(t)[1] = "rel"
    /\ locking' = [locking EXCEPT !.owner[StepOf(t)[2]] = "none", !.th[t] = Stepped(t)]
    /\ UNCHANGED lock_fixed

\* a step that may raise or return: if it does, every "with" block the thread
\* is in releases its lock and the function is left
LockIo(t, ok) ==
    /\ Running(t)
    /\ StepOf(t)[1] = "io"
    /\ IF ok
       THEN locking' = [locking EXCEPT !.th[t] = Stepped(t)]
       ELSE locking' = [owner |-> [l \in Locks |-> IF locking.owner[l] = t THEN "none"
                                                    ELSE locking.owner[l]],
                        th |-> [locking.th EXCEPT ![t] = [op |-> "none", i |-> 0]]]
    /\ UNCHANGED lock_fixed

LockNext ==
    \/ \E t \in Roles : \E op \in DOMAIN Programs[t] : LockCall(t, op)
    \/ \E t \in Roles : LockAcquire(t)
    \/ \E t \in Roles : LockRelease(t)
    \/ \E t \in Roles, ok \in BOOLEAN : LockIo(t, ok)

LockSpec == LockInit /\ [][LockNext]_vars

----------------------------------------------------------------------------
(* Properties *)

Host(r) == request_url(TheRequest(r)).netloc
Managed(r) == req[r] # 0 /\ loc[r].route = "managed"
FileData(path) == inodes[files[path]].data

\* C1: the file at a final cache path is absent or holds a complete upstream
\* body, never a partially written one (stated for the entries whose temp path is
\* not their own final path).
C1_FinalPathAbsentOrComplete ==
    \A q \in TwoParts :
        TempPathOf[q] # CachePathOf[q] /\ Exists(CachePathOf[q])
            => Complete(FileData(CachePathOf[q]))

\* C2: two concurrent misses for the same path each write their own temp file,
\* both finish their commit without error, and the final path then holds one
\* complete body.
C2_EachItsOwnTempFile ==
    (req[1] # 0 /\ req[1] = req[2] /\ admin_ops = 0) =>
        /\ pc[1] = "write" /\ pc[2] = "write" => fd[1].ino # fd[2].ino
        /\ (pc[1] = "done" /\ pc[2] = "done" /\ resp[1].commit # "none"
                /\ resp[2].commit # "none")
            => /\ resp[1].commit = "ok" /\ resp[2].commit = "ok"
               /\ Exists(CachePath(1)) /\ Complete(FileData(CachePath(1)))

\* C3: stream_and_cache goes on to the next URL only after the current one failed:
\* a transport error, a timeout, a 404 or another status of 400 or more.
C3_NextOnlyAfterFailure ==
    \A r \in Slots :
        pc[r] = "fetch" /\ loc[r].i > 1
            => LET last == contacted[r][Len(contacted[r])].result
               IN  \/ last.kind \in {"timeout", "error"}
                   \/ last.kind = "status" /\ last.code >= 400

\* C4: when every upstream URL of a managed miss has failed the client gets 502
\* with the error string of the last URL tried, and the request has touched no
\* file; while a URL is left the loop goes on.
C4_AllFailedIs502 ==
    \A r \in Slots :
        LET log == contacted[r]
            failed(res) == ~(res.kind = "ok" \/ (res.kind = "status" /\ res.code \in {200, 206, 304}))
        IN  (Managed(r) /\ log # << >> /\ \A j \in 1..Len(log) : failed(log[j].result))
                => /\ fsops[r] = {} /\ fd[r] = NoFd
                   /\ pc[r] \in {"fetch", "done"}
                   /\ pc[r] = "done" =>
                        /\ resp[r].status = 502 /\ resp[r].body = 0
                        /\ resp[r].detail = error_string(log[Len(log)].result)

C4_Witness ==
    \E r \in Slots :
        /\ Managed(r) /\ pc[r] = "done" /\ Len(contacted[r]) = 2
        /\ contacted[r][1].result.kind = "failed"
        /\ contacted[r][2].result = [kind |-> "status", code |-> 404]
        /\ resp[r].status = 502 /\ resp[r].detail.text = "404 Not Found"

\* C5: right after a managed miss has been fetched and committed, the same request
\* is a cache hit (stated for a fetch that began at the present clock reading).
C5_HitRightAfterCommit ==
    [][\A r \in Slots :
          (pc[r] = "write" /\ pc'[r] = "done" /\ resp'[r].commit = "ok"
                /\ resp[r].at = now /\ now' = now)
              => is_cache_valid(CachePath(r))']_vars

\* C6: a request that found its entry fresh has counted one request and one hit,
\* no miss, has added the size of the file it serves to bytes_served and has
\* contacted no upstream (stated for the entries whose temp path is not their own
\* final path); a miss served to completion from a 200 upstream has
\* counted one request, one miss and the body length.
C6_HitAndMissCounters ==
    \A r \in Slots :
        pc[r] = "done" =>
            /\ (acct[r].cache_hits = 1 /\ TempPath(r) # CachePath(r)) =>
                 /\ acct[r].requests_total = 1 /\ acct[r].cache_misses = 0
                 /\ contacted[r] = << >>
                 /\ resp[r].status = 200 /\ resp[r].source = "cache"
                 /\ acct[r].bytes_served = resp[r].body
            /\ (resp[r].source = "upstream" /\ resp[r].status = 200 /\ resp[r].body = BodyLen)
                 => acct[r] = [requests_total |-> 1, cache_hits |-> 0, cache_misses |-> 1,
                               bytes_served |-> BodyLen]

\* the requests whose logical file name (the cache file name after its first
\* underscore) matches a pattern of the stored blacklist
MatchedByStored ==
    {q \in TwoParts :
        \E i \in 1..Len(StoredBlacklist) :
            PatternMatches(StoredBlacklist[i], real_filename_of(CachePathOf[q]))}

\* C7: a managed miss whose logical file name matches a blacklist pattern creates
\* neither its final cache file nor its temp file; a 200 upstream answer that
\* streams to its end reaches the client in full, each chunk counted in
\* bytes_served.
C7_BlacklistedNeverStored ==
    \A r \in Slots :
        (BLACKLIST_PATTERNS = StoredBlacklist /\ req[r] \in MatchedByStored)
            => /\ fsops[r] = {} /\ fd[r] = NoFd
               /\ ~Exists(CachePath(r)) /\ ~Exists(TempPath(r))
               /\ resp[r].source = "upstream" => acct[r].bytes_served = resp[r].body
               /\ (pc[r] = "done" /\ resp[r].source = "upstream" /\ resp[r].status = 200
                       /\ resp[r].error = "none")
                    => resp[r].body = BodyLen

C7_Witness ==
    \E r \in Slots :
        /\ req[r] \in MatchedByStored
        /\ pc[r] = "done" /\ resp[r].source = "upstream" /\ resp[r].status = 200
        /\ resp[r].body = BodyLen /\ acct[r].bytes_served = BodyLen
        /\ fsops[r] = {}

\* C8: the mirrors a request is routed by are those whose status is approved when
\* the routing reads the registry: the managed path is taken only if the distro or
\* its security key is among them, and the mirror whose URLs are fetched is
\* approved when the fetch reads the registry.
C8_OnlyApprovedRoute ==
    [][\A r \in Slots :
          LET approved == {n \in DOMAIN MIRRORS_CACHE : MIRRORS_CACHE[n].status = "approved"}
          IN  /\ (pc[r] = "route" /\ pc'[r] = "route_key") => loc'[r].snap = approved
              /\ (pc[r] = "route_key" /\ pc'[r] = "count")
                    => \/ Distro(r) \in loc[r].snap
                       \/ Distro(r) \o S_dash_security \in loc[r].snap
              /\ (pc[r] = "resolve" /\ pc'[r] = "blacklist")
                    => /\ loc'[r].key \in approved
                       /\ loc'[r].key \in {Distro(r), Distro(r) \o S_dash_security}
                       /\ Len(loc'[r].urls) = Len(MIRRORS_CACHE[loc'[r].key].urls)
                       /\ \A j \in 1..Len(loc'[r].urls) :
                              loc'[r].urls[j].netloc = MIRRORS_CACHE[loc'[r].key].urls[j].netloc]_vars

C8_Witness ==
    \E r \in Slots :
        /\ req[r] = 1 /\ pc[r] = "done"
        /\ S_ubuntu \in DOMAIN MIRRORS_CACHE
        /\ MIRRORS_CACHE[S_ubuntu].status \in {"pending", "blacklisted"}
        /\ loc[r].route = "rejected" /\ resp[r].status = 404 /\ contacted[r] = << >>

\* C9: an unknown request is proxied directly only when passthrough_mode is on and
\* the request line was in absolute form; otherwise it is answered 404 and no
\* upstream is contacted.
C9_DirectOnlyForAbsoluteForm ==
    \A r \in Slots :
        req[r] # 0 =>
            /\ loc[r].route = "direct"
                 => CONFIG.passthrough_mode /\ TheRequest(r).form = "absolute"
            /\ loc[r].route = "rejected" => resp[r].status = 404 /\ contacted[r] = << >>

C12_UpstreamKeySelection ==
    [][\A r \in Slots :
          LET approved == {n \in DOMAIN MIRRORS_CACHE : MIRRORS_CACHE[n].status = "approved"}
              sec_key == Distro(r) \o <<"-", "s", "e", "c", "u", "r", "i", "t", "y">>
              in_path == req[r] = 2
          IN  /\ (pc[r] = "key" /\ pc'[r] = "resolve")
                    => /\ loc'[r].key = sec_key <=> (in_path /\ sec_key \in approved)
                       /\ loc'[r].key # sec_key => loc'[r].key = Distro(r)
              /\ (pc[r] = "resolve" /\ pc'[r] = "blacklist" /\ loc[r].key \in approved)
                    => /\ loc'[r].key = loc[r].key
                       /\ loc'[r].urls =
                            [j \in 1..Len(MIRRORS_CACHE[loc[r].key].urls) |->
                                [MIRRORS_CACHE[loc[r].key].urls[j] EXCEPT
                                    !.path = @ \o <<"/">> \o PackagePath(r)]]]_vars

\* a security path fetched from the security mirror while the distro is approved too
C12_Witness ==
    \E r \in Slots :
        /\ req[r] = 2 /\ pc[r] = "fetch" /\ loc[r].key = S_ubuntu_security
        /\ loc[r].urls = << Url(<<"s">>, <<"/">> \o S_ubuntu \o <<"/">> \o P_sec) >>
        /\ S_ubuntu \in DOMAIN MIRRORS_CACHE /\ MIRRORS_CACHE[S_ubuntu].status = "approved"

\* C18: when the client of a caching fetch disconnects before the end of the
\* stream, the temp file is unlinked and no file is at the final cache path
\* (stated for a request served alone).
C18_DisconnectUnlinksTemp ==
    \A r \in Slots :
        (/\ accepted = 1 /\ admin_ops = 0 /\ pc[r] = "done"
         /\ resp[r].error = "client disconnected" /\ fsops[r] # {})
            => ~Exists(TempPath(r)) /\ ~Exists(CachePath(r))

\* STORAGE/<distro>/<h[0:2]>/<h>_<basename> written out for the cached requests of
\* the model
LayoutPath ==
    << [distro |-> S_ubuntu, sub |-> "9b",
        name |-> <<"9bb592ca3754479107632ca45b632438", "_", "x", ".", "d", "e", "b">>],
       [distro |-> S_ubuntu, sub |-> "56",
        name |-> <<"56c26ad6b7616a05bf9719fce103a553", "_", "x", ".", "d", "e", "b">>],
       [distro |-> S_ubuntu, sub |-> "6b",
        name |-> <<"6bd4b45d3c06c91084fb2f14b6061065", "_", "x", ".", "i", "s", "o">>],
       [distro |-> S_ubuntu, sub |-> "6f",
        name |-> <<"6f18e649d799c0b7ffa43382c8b3574a", "_", "x", ".", "t", "m", "p">>] >>

\* C19: the cache path of a request is STORAGE/<distro>/<h[0:2]>/<h>_<basename>,
\* h the MD5 hex digest of the package path and "index" standing for an empty
\* basename: whatever happened before, a commit puts the file at that path and a
\* hit is served from a file at that path.
C19_PathIsLayout ==
    [][/\ get_cache_path(S_ubuntu, P_dir) =
            [distro |-> S_ubuntu, sub |-> "cb",
             name |-> <<"cb9e5f3fc2694b8444c3259f896ee527", "_", "i", "n", "d", "e", "x">>]
       /\ \A r \in Slots :
            /\ (pc[r] = "write" /\ pc'[r] = "done" /\ resp'[r].commit = "ok")
                  => LayoutPath[req[r]] \in DOMAIN files'
            /\ (pc[r] = "serve" /\ pc'[r] = "done" /\ resp'[r].status = 200)
                  => /\ LayoutPath[req[r]] \in DOMAIN files
                     /\ resp'[r].body = Len(inodes[files[LayoutPath[req[r]]]].data)]_vars

\* the same request fetched again after its file was deleted: the second commit
\* is at the same path
C19_Witness ==
    /\ accepted = 2 /\ admin_ops = 1 /\ pc[2] = "idle"
    /\ req[1] = 1 /\ pc[1] = "done" /\ resp[1].commit = "ok"
    /\ LayoutPath[1] \in DOMAIN files

\* C11: a save under a name of this process itself is refused, so no entry of
\* the registry or of the store ever carries such a name
C11_NoSelfEntry ==
    \A n \in DOMAIN MIRRORS_CACHE \cup DOMAIN db_mirrors : n \notin SelfHostNames

\* the token each Authorization header of the model carries: the header itself,
\* or the word that follows "Bearer "
TokenCarried ==
    (S_token :> S_token)
        @@ (S_Bearer \o S_token :> S_token)
        @@ (S_Bearer \o <<"b", "a", "d">> :> <<"b", "a", "d">>)
        @@ (S_Bearer \o S_token \o <<" ", "x">> :> S_token)

\* C14: with a non-empty admin_token configured, an admin operation whose
\* Authorization header is missing or carries another token is answered 401 at
\* once and changes neither the configuration (in memory or on disk), the mirror
\* registry, the store, the blacklist nor any file; with an empty admin_token
\* every admin request goes on to its operation
C14_AdminAuth ==
    [][\A w \in ApiWorkers :
          LET rq == api[w].rq
              token == CONFIG.admin_token
              denied == /\ token # << >>
                        /\ \/ rq.header = << >>
                           \/ TokenCarried[rq.header] # token
          IN  (api[w].pc = "auth" /\ api'[w].pc # "auth" /\ rq.op # "download") =>
                  IF denied
                  THEN /\ api'[w].pc = "done"
                       /\ api'[w].code = 401
                       /\ UNCHANGED << CONFIG, disk_config, MIRRORS_CACHE, db_mirrors,
                                       BLACKLIST_PATTERNS, files, inodes, outside >>
                  ELSE /\ api'[w].pc = rq.op
                       /\ api'[w].code = 0]_vars

C14_Witness ==
    /\ CONFIG.admin_token = S_token
    /\ api[1].pc = "done" /\ api[1].code = 401 /\ api[1].rq.op = "delete"
    /\ api[2].pc = "done" /\ api[2].code = 200 /\ api[2].rq.op = "delete_cache"
    /\ api[1].rq.name \in DOMAIN MIRRORS_CACHE \cap DOMAIN db_mirrors

\* C15: whatever the path parameter, the cache delete of the admin interface
\* removes no file outside the storage root and the cache download sends none
C15_StaysInsideRoot ==
    /\ OutsideFile \in outside
    /\ \A w \in ApiWorkers : api[w].sent # "outside"

\* C16 as stated: in every state every entry of the registry has a non-empty
\* urls list of which every url answered a reachability probe
C16_EveryUrlProbed ==
    \A n \in DOMAIN MIRRORS_CACHE :
        /\ MIRRORS_CACHE[n].urls # << >>
        /\ UrlSet(MIRRORS_CACHE[n].urls) \subseteq probed

\* C16: in every state every entry of the registry and of the store has a
\* non-empty urls list, and every url in it either answered a reachability probe
\* or is one the entry was seeded with from the built-in defaults; a save or an
\* update whose urls all fail the probe is refused (400, 500) with registry and
\* store as they were, and one that goes on carries only urls that answered
C16_UrlsProbedOrSeeded ==
    [][/\ \A table \in {MIRRORS_CACHE', db_mirrors'} : \A n \in DOMAIN table :
             /\ table[n].urls # << >>
             /\ \A url \in UrlSet(table[n].urls) :
                    \/ url \in probed'
                    \/ n \in DOMAIN DefaultMirrors /\ url \in UrlSet(DefaultMirrors[n])
       /\ \A w \in ApiWorkers :
             LET rq == api[w].rq
                 answered == (probed' \ probed) \cup (probed \cap UrlSet(rq.urls))
                 probing == \/ api[w].pc = "add" /\ api'[w].pc # "add"
                            \/ api[w].pc = "update" /\ api'[w].pc # "update" /\ rq.has_urls
             IN  probing =>
                     IF api'[w].pc = "done"
                     THEN /\ api'[w].code \in {400, 500}
                          /\ UNCHANGED << MIRRORS_CACHE, db_mirrors >>
                     ELSE /\ api'[w].new_urls # << >>
                          /\ UrlSet(api'[w].new_urls) \subseteq answered]_vars

C16_Witness ==
    /\ api[1].pc = "done" /\ api[1].code = 200 /\ api[1].rq.op = "add"
    /\ api[2].pc = "done" /\ api[2].code = 500 /\ api[2].rq.op = "update"
    /\ api[2].rq.name = api[1].rq.name /\ api[2].rq.urls = <<AdminUrl2>>
    /\ api[1].rq.name \in DOMAIN MIRRORS_CACHE
    /\ MIRRORS_CACHE[api[1].rq.name].urls = <<AdminUrl1>>
    /\ db_mirrors = MIRRORS_CACHE
    /\ probed = {AdminUrl1}

\* C17: whenever no save, update or delete is in progress, the registry in
\* memory holds the names of the persisted table with the same urls and status
C17_MemoryMatchesStore ==
    (\A w \in ApiWorkers : api[w].pc \in {"idle", "done"}) => MIRRORS_CACHE = db_mirrors

\* C20: when config sets on different keys have all returned with success, the
\* configuration on disk and the one in memory both hold every value that was set
C20_ConcurrentSetsKept ==
    (/\ \A w \in ApiWorkers :
           api[w].pc = "done" /\ api[w].rq.op = "config" /\ api[w].code = 200
     /\ \A w, v \in ApiWorkers : w # v => api[w].rq.key # api[v].rq.key)
        => \A w \in ApiWorkers :
               /\ disk_config = ConfigSet(disk_config, api[w].rq)
               /\ CONFIG = ConfigSet(CONFIG, api[w].rq)

IsPrefix(p, s) == Len(p) <= Len(s) /\ SubSeq(s, 1, Len(p)) = p

\* C13: in each direction of a tunnel the bytes written to the peer are at all
\* times a prefix of the bytes read from the source socket, and a read of zero
\* bytes from either socket ends the relay loop
C13_TunnelTransparent ==
    /\ IsPrefix(tunnel.out["upstream"], tunnel.read["client"])
    /\ IsPrefix(tunnel.out["client"], tunnel.read["upstream"])
    /\ tunnel.eof => tunnel.pc = "closed"

C13_Witness ==
    /\ tunnel.pc = "closed" /\ tunnel.eof
    /\ tunnel.read["client"] = <<"x", "y">> /\ tunnel.out["upstream"] = <<"x", "y">>
    /\ tunnel.read["upstream"] = <<"y", "x">> /\ tunnel.out["client"] = <<"y", "x">>

\* the final cache paths of the requests of the model that only a commit (the
\* rename of a temp file) brings into being
FinalPaths == {CachePathOf[q] : q \in TwoParts} \ {TempPathOf[q] : q \in TwoParts}

\* the content of a file when every upstream serves the same body: its length and
\* which of its chunks hold upstream bytes (the others are holes of zeros)
Content(data) == [j \in 1..Len(data) |-> data[j] # 0]

\* C21: the content of a committed cache file never changes: from one state to
\* the next a final cache path either names the file it named, with the content
\* it had, or was removed, or was committed anew
C21_CommittedNeverChanges ==
    [][\A path \in FinalPaths :
          (path \in DOMAIN files /\ path \in DOMAIN files' /\ files'[path] = files[path])
              => Content(inodes'[files[path]].data) = Content(inodes[files[path]].data)]_vars

\* C22: a cache entry is valid exactly when it exists and retention is disabled
\* or the later of its atime and mtime is less than cache_days old
C22_FreshByLaterStamp ==
    \A path \in FinalPaths \cap DOMAIN files :
        is_cache_valid(path) <=>
            \/ ~CONFIG.cache_retention_enabled
            \/ now - Max(inodes[files[path]].atime, inodes[files[path]].mtime)
                   < CONFIG.cache_days

\* C23: an upstream 304 or 206 to a managed miss ends the failover loop with no
\* caching action: the answer is passed on at once (304 with no body, 206 with
\* its body streamed and counted in bytes_served chunk by chunk), the request
\* creates and writes no file, opens none, and contacts no further mirror
C23_NoCachingOn304And206 ==
    [][\A r \in Slots :
          LET n == Len(contacted'[r])
              answered == /\ pc[r] = "fetch"
                          /\ n = Len(contacted[r]) + 1
                          /\ contacted'[r][n].result.kind = "status"
                          /\ contacted'[r][n].result.code \in {206, 304}
              passing == /\ Managed(r)
                         /\ resp[r].source = "upstream"
                         /\ resp[r].status \in {206, 304}
          IN  /\ answered =>
                 /\ resp'[r].status = contacted'[r][n].result.code
                 /\ resp'[r].source = "upstream" /\ resp'[r].body = 0
                 /\ pc'[r] = IF resp'[r].status = 304 THEN "done" ELSE "stream"
                 /\ UNCHANGED << files, inodes, fd, fsops, STATS >>
              /\ (passing /\ pc'[r] # "route") =>
                 /\ contacted'[r] = contacted[r]
                 /\ fsops'[r] = {} /\ fd'[r] = NoFd
                 /\ resp'[r].status = resp[r].status
                 /\ resp[r].status = 304 => pc[r] = "done" /\ resp[r].body = 0
                 /\ acct'[r].bytes_served = resp'[r].body
                 /\ (pc'[r] # pc[r] \/ resp'[r] # resp[r]) => UNCHANGED << files, inodes >>]_vars

C23_Witness ==
    \E r \in Slots :
        /\ Managed(r) /\ pc[r] = "done"
        /\ resp[r].status = 206 /\ resp[r].source = "upstream" /\ resp[r].body = BodyLen
        /\ Len(contacted[r]) = 2
        /\ acct[r].bytes_served = BodyLen
        /\ fsops[r] = {} /\ files = << >>

\* C24: an update writes only the fields it was given: where it names no urls
\* the entry keeps the urls it has when the update is written, where it names no
\* status the entry keeps its status, in the store and in memory
C24_PartialUpdate ==
    [][\A w \in ApiWorkers :
          LET rq == api[w].rq
              kept(was, is) == /\ ~rq.has_urls => is.urls = was.urls
                               /\ rq.status = "none" => is.status = was.status
          IN  /\ (api[w].pc = "update_db" /\ api'[w].pc = "update_mem") =>
                     kept(db_mirrors[rq.name], db_mirrors'[rq.name])
              /\ (api[w].pc = "update_mem" /\ api'[w].pc = "done"
                     /\ rq.name \in DOMAIN MIRRORS_CACHE) =>
                     kept(MIRRORS_CACHE[rq.name], MIRRORS_CACHE'[rq.name])]_vars

\* C25: a CONNECT request that opened an upstream socket ends with that socket
\* closed on every path (no client socket, the 200 line not sent, end of stream,
\* an I/O error in the relay), and once the relay has ended both the client
\* socket and the upstream socket are closed
C25_SocketsReleased ==
    /\ tunnel.pc \in {"done", "closed"} => tunnel.up # "open"
    /\ tunnel.pc = "closed" => tunnel.up = "closed" /\ tunnel.cl = "closed"
    /\ tunnel.pc = "done" =>
          (tunnel.up = "closed" <=> tunnel.code \in {500, 501})

C25_Witness ==
    /\ tunnel.pc = "closed" /\ ~tunnel.eof
    /\ tunnel.up = "closed" /\ tunnel.cl = "closed"
    /\ tunnel.read["client"] = <<"x", "y">> /\ tunnel.out["upstream"] = <<"x">>

\* what the relay has moved so far
Relayed == \E t \in Sockets : tunnel.read[t] # << >> \/ tunnel.out[t] # << >>

\* C26: the 200 Connection Established line goes to the client only after the
\* dial succeeded and the client socket was obtained, and before any relayed
\* byte; a failed dial is answered 502 and a missing client socket 501, in both
\* cases with no 200 line and no relayed byte
C26_ConnectOrder ==
    /\ tunnel.line => tunnel.up # "none" /\ tunnel.cl # "none"
    /\ Relayed => tunnel.line
    /\ tunnel.pc \in {"select", "recv", "send", "closed"} => tunnel.line
    /\ (tunnel.pc = "done" /\ tunnel.up = "none") => tunnel.code = 502 /\ ~tunnel.line
    /\ (tunnel.pc = "done" /\ tunnel.up # "none" /\ tunnel.cl = "none") =>
           tunnel.code = 501 /\ ~tunnel.line
    /\ tunnel.code \in {501, 502} => tunnel.pc = "done" /\ ~Relayed

C26_Witness ==
    /\ tunnel.pc = "done" /\ tunnel.code = 501
    /\ tunnel.up = "closed" /\ tunnel.cl = "none" /\ ~tunnel.line

\* C27: while stats_lock is held no operation of the persistent store is in
\* progress
C27_StatsLockNotAcrossStore ==
    flush.stats_lock # "none" => ~flush.io

\* the later of the two time stamps of the file at a path is before the cutoff
\* of a run that starts now
OlderThanWindow(path) ==
    LET stat == inodes[files[path]]
        later == IF stat.mtime > stat.atime THEN stat.mtime ELSE stat.atime
    IN  later < now - CONFIG.cache_days

\* C28: with retention enabled a run of clean_old_cache lists every file, removes
\* a file exactly when the later of its atime and mtime is before now - cache_days
\* and keeps every other file, goes on after a file that cannot be examined, and
\* leaves no such old file when it has ended; with retention disabled no run
\* starts and no file is removed
C28_EvictionByAge ==
    [][/\ (~cleaner.running /\ admin_ops' = admin_ops + 1) =>
             IF CONFIG.cache_retention_enabled
             THEN /\ cleaner'.running /\ cleaner'.todo = DOMAIN files
                  /\ cleaner'.cutoff = now - CONFIG.cache_days
                  /\ files' = files
             ELSE ~cleaner'.running /\ files' = files
       /\ \A path \in AllPaths :
             (cleaner.running /\ path \in cleaner.todo /\ path \notin cleaner'.todo) =>
                 /\ cleaner'.running
                 /\ cleaner'.todo = cleaner.todo \ {path}
                 /\ \A other \in DOMAIN files \ {path} :
                        other \in DOMAIN files' /\ files'[other] = files[other]
                 /\ path \in DOMAIN files =>
                        (path \notin DOMAIN files' <=> OlderThanWindow(path))
       /\ (cleaner.running /\ ~cleaner'.running) =>
             /\ cleaner.todo = {}
             /\ \A path \in DOMAIN files' : ~OlderThanWindow(path)'
       /\ ~CONFIG.cache_retention_enabled => ~cleaner'.running]_vars

C28_Witness ==
    /\ admin_ops = 1 /\ ~cleaner.running /\ CONFIG.cache_retention_enabled
    /\ DOMAIN files = {StoredPaths[2]}
    /\ inodes[files[StoredPaths[2]]].atime = 0
    /\ inodes[files[StoredPaths[2]]].mtime = CacheDays + 1

\* C29: while a caching fetch writes its partial file, the file it writes is
\* named as the entry's final name with ".tmp" appended, and its path is not the
\* final path of any entry, the request's own included
C29_TempPathIsSibling ==
    \A r \in Slots :
        pc[r] = "write" =>
            /\ TempPath(r).name = CachePath(r).name \o S_tmp
            /\ \A q \in TwoParts : TempPath(r) # CachePathOf[q]

\* C30: a request that found its entry fresh and was answered from the cache
\* was answered 200 without an error, whatever removed files in between (for
\* the entries whose final path is not also the path of a partial file)
C30_ReadersUnaffected ==
    \A r \in Slots :
        (pc[r] = "done" /\ resp[r].source = "cache" /\ CachePath(r) \in FinalPaths) =>
            resp[r].status = 200 /\ resp[r].error = "none"

\* the four hosts that name this process literally, and a host that is one of
\* them as it stands or followed by ":" and a port number
LiteralSelfHosts ==
    {S_localhost, <<"1", "2", "7", ".", "0", ".", "0", ".", "1">>, S_self6,
     <<"0", ".", "0", ".", "0", ".", "0">>}
IsLiteralSelf(host) ==
    \E lit \in LiteralSelfHosts :
        \/ host = lit
        \/ /\ Len(host) > Len(lit) + 1
           /\ SubSeq(host, 1, Len(lit) + 1) = lit \o <<":">>
           /\ \A j \in (Len(lit) + 2)..Len(host) :
                  host[j] \in {"0", "1", "2", "3", "4", "5", "6", "7", "8", "9"}

\* C31: whenever save_mirror_to_db is about to test the name of an add request
\* with is_self, and the name is one of the literal hosts localhost, 127.0.0.1,
\* ::1, 0.0.0.0 with or without a port, is_self is true of it
C31_LiteralHostsAreSelf ==
    \A w \in ApiWorkers :
        (api[w].pc = "add" /\ IsLiteralSelf(api[w].rq.name)) => is_self(api[w].rq.name)

\* C32: every mirror of the registry, in memory and in the store, has one of
\* the statuses approved, pending, blacklisted
C32_StatusIsOneOfThree ==
    /\ \A n \in DOMAIN MIRRORS_CACHE : MIRRORS_CACHE[n].status \in MirrorStatuses
    /\ \A n \in DOMAIN db_mirrors : db_mirrors[n].status \in MirrorStatuses

\* thread t is at the entry of a "with" block of lock l
Wants(t, l) == Running(t) /\ StepOf(t) = <<"acq", l>>
\* thread t waits: the lock it wants is held
Waits(t) == \E l \in Locks : Wants(t, l) /\ locking.owner[l] # "none"

Counted == << STATS.requests_total, STATS.cache_hits, STATS.cache_misses >>

\* C34: cache_hits + cache_misses never exceeds requests_total, and the two are
\* equal whenever no managed request is between the line that counts the
\* request and the line that counts its hit or miss (the equality is stated
\* for the requests whose final path is not also the path of a partial file)
C34_CountersConsistent ==
    /\ STATS.cache_hits + STATS.cache_misses <= STATS.requests_total
    /\ (/\ \A r \in Slots : pc[r] \notin {"check", "stat"}
        /\ \A r \in Slots : req[r] \in TwoParts => CachePath(r) \in FinalPaths) =>
           STATS.cache_hits + STATS.cache_misses = STATS.requests_total

\* C35: a step of a request handler (any step that is not an admin operation)
\* leaves every registry entry that is pending or blacklisted as it is, in
\* memory and in the store
C35_LearningKeepsEntries ==
    [][admin_ops' = admin_ops =>
          /\ \A n \in DOMAIN MIRRORS_CACHE :
                MIRRORS_CACHE[n].status \in {"pending", "blacklisted"} =>
                    n \in DOMAIN MIRRORS_CACHE' /\ MIRRORS_CACHE'[n] = MIRRORS_CACHE[n]
          /\ \A n \in DOMAIN db_mirrors :
                db_mirrors[n].status \in {"pending", "blacklisted"} =>
                    n \in DOMAIN db_mirrors' /\ db_mirrors'[n] = db_mirrors[n]]_vars

C37_FailedReloadKeepsConfig ==
    [][\A w \in ApiWorkers :
          (/\ api[w].pc \in {"reload", "reload_mem"}
           /\ api'[w].pc = "done" /\ api'[w].code = 500)
              => CONFIG' = CONFIG /\ "storage_path_resolved" \in DOMAIN CONFIG']_vars


\* C38: when the store fails during a mirror save, update or delete or a
\* blacklist add or remove, the handler answers with a failure and the registry
\* and the blacklist in memory stay as they were; the step that leads to a
\* change in memory is one in which the store took that change
C38_FailedStoreLeavesMemory ==
    [][/\ \A w \in ApiWorkers :
            LET name == api[w].rq.name
                taken == [urls |-> api[w].new_urls, status |-> api[w].new_status]
            IN  /\ (api[w].pc \in {"add_db", "update_db"}
                        /\ api'[w].pc \in {"add_mem", "update_mem"})
                       => name \in DOMAIN db_mirrors' /\ db_mirrors'[name] = taken
                /\ (api[w].pc = "delete" /\ api'[w].pc = "delete_mem")
                       => name \notin DOMAIN db_mirrors'
                /\ (api[w].pc \in {"add_db", "update_db", "delete"} /\ api'[w].pc = "done")
                       => /\ api'[w].code \in {400, 500}
                          /\ UNCHANGED << MIRRORS_CACHE, db_mirrors >>
                /\ (api[w].pc = "add_blacklist" /\ api'[w].pc = "done")
                       => IF api'[w].code = 200
                          THEN name \in db_blacklist'
                          ELSE UNCHANGED << BLACKLIST_PATTERNS, db_blacklist >>
                /\ (api[w].pc = "remove_blacklist" /\ api'[w].pc = "done")
                       => IF api'[w].code = 200
                          THEN name \notin db_blacklist'
                          ELSE UNCHANGED << BLACKLIST_PATTERNS, db_blacklist >>
       /\ MIRRORS_CACHE' # MIRRORS_CACHE
              => \E w \in ApiWorkers : api[w].pc \in {"add_mem", "update_mem", "delete_mem"}
       /\ BLACKLIST_PATTERNS' # BLACKLIST_PATTERNS
              => \E w \in ApiWorkers :
                    /\ api[w].pc \in {"add_blacklist", "remove_blacklist"}
                    /\ api'[w].pc = "done" /\ api'[w].code = 200]_vars

\* a delete of a registered mirror and the add of a new pattern have both
\* answered 500 after the store refused them: the mirror is still in the
\* registry and in the table, the pattern is in neither list nor table
C38_Witness ==
    /\ api[1].pc = "done" /\ api[1].code = 500 /\ api[1].rq.op = "delete"
    /\ api[1].rq.name \in DOMAIN MIRRORS_CACHE \cap DOMAIN db_mirrors
    /\ api[2].pc = "done" /\ api[2].code = 500 /\ api[2].rq.op = "add_blacklist"
    /\ api[2].rq.name \notin db_blacklist
    /\ \A j \in 1..Len(BLACKLIST_PATTERNS) : BLACKLIST_PATTERNS[j] # api[2].rq.name

====
